---------------------------- MODULE Spec2Model ----------------------------
(***************************************************************************)
(* Kazuri Studio front end: the Root Controller (Home), the agent creation *)
(* form, the ToolManager and the API client, as a state machine.           *)
(*                                                                         *)
(* Conventions.  A JavaScript string is a sequence of atoms (TLA+ strings);*)
(* concatenation is \o.  A JavaScript object used as a mapping (an agent's *)
(* configuration, a query context) is a set of <<key, value>> pairs with   *)
(* at most one pair per key.  null / undefined are the atoms below.        *)
(* React runs an effect after the render that changed its dependency: the  *)
(* effects still to run are pendingEffects, and FlushEffects runs them.    *)
(* React flushes pending effects before it handles a user event, so every  *)
(* user event requires pendingEffects = {}; the continuation of an awaited *)
(* request may run at any time.                                            *)
(***************************************************************************)
EXTENDS Integers, Sequences, FiniteSets, TLC

VARIABLES
  \* ---- Home (src/unnamed/part_000) ----
  agents, selectedAgent, selectedType, isCreating, isLoading, error,
  newAgent, selectedTools, showToolManager,
  message, messages, selectedLanguage, codingMode,
  isProcessingDocument, hasDocument, currentDocument,
  \* ---- ToolManager (components/ToolManager.tsx), while it is mounted ----
  tmTools, tmIsCreating, creationMode, description, toolName, code,
  tmError, tmLoading, successMessage, tmTimer,
  \* ---- React runtime: effects still to run ----
  pendingEffects,
  \* ---- requests in flight, one sequence per awaited call, in issue order
  listReqs, createReqs, queryReqs, uploadReqs, toolReqs,
  \* ---- the remote service: the id it gives the next agent it creates
  serverNextId,
  \* ---- one call of the API client taken alone: [phase, op, arg, sent, resp, outcome]
  apiCall,
  \* ---- the exported agentTypes array (types/index.ts) and the last
  \* ---- agentTypes.find(t => t.id === id) taken alone: [phase, id, result]
  registry, typeLookup,
  \* ---- KazuriChat (frontend_3/components/AgentTest/index.tsx) and its
  \* ---- setTimeout callbacks still to run, in the order they were set
  currentTab, chatMessages, inputValue, timers

coreVars == <<agents, selectedAgent, selectedType, isCreating, isLoading, error>>

draftVars == <<newAgent, selectedTools, showToolManager>>

chatVars == <<message, messages, selectedLanguage, codingMode>>

docVars == <<isProcessingDocument, hasDocument, currentDocument>>

homeVars == <<coreVars, draftVars, chatVars, docVars>>

tmVars == <<tmTools, tmIsCreating, creationMode, description, toolName, code, tmError, tmLoading, successMessage, tmTimer>>

netVars == <<listReqs, createReqs, queryReqs, uploadReqs, toolReqs, serverNextId>>

\* The parts of the state that Home and ToolManager never write.
kazuriVars == <<currentTab, chatMessages, inputValue, timers>>

aloneVars == <<apiCall, registry, typeLookup, kazuriVars>>

vars == <<homeVars, tmVars, pendingEffects, netVars, aloneVars>>

----------------------------------------------------------------------------
\* Bounds of the model.

\* Longest message list (guards the send in Next).
MaxMsgs == 2

\* Most ToolManager requests in flight (guards the steps that issue one).
MaxToolReqs == 2

\* Most agents the list may hold (guards agent creation in Next).
MaxAgents == 2

\* Longest message list of a long conversation (NextHistory).
MaxHistory == 8

\* Longest tool list the service sends to the API client taken alone (NextApi).
MaxListedTools == 2

\* Most agents the list may hold on the creation side (NextForm).
MaxFormAgents == 1

----------------------------------------------------------------------------
\* JavaScript values.

Null == "null"

Undefined == "undefined"

\* selectedAgent = null: a record so that it compares with agents.
NullAgent == [id |-> 0, name |-> <<>>, type |-> Null, status |-> Null, configuration |-> {}]

Max(a, b) == IF a > b THEN a ELSE b

\* Array.prototype.slice(-n)
SliceLast(s, n) == SubSeq(s, Max(1, Len(s) - n + 1), Len(s))

\* Array.prototype.join over strings
RECURSIVE Join(_, _)
Join(parts, sep) == IF parts = <<>> THEN <<>> ELSE IF Len(parts) = 1 THEN parts[1] ELSE parts[1] \o sep \o Join(Tail(parts), sep)

\* String.prototype.trim: whitespace is the atom " ".
RECURSIVE TrimStart(_)
TrimStart(s) == IF s # <<>> /\ Head(s) = " " THEN TrimStart(Tail(s)) ELSE s

RECURSIVE TrimEnd(_)
TrimEnd(s) == IF s # <<>> /\ s[Len(s)] = " " THEN TrimEnd(SubSeq(s, 1, Len(s) - 1)) ELSE s

Trim(s) == TrimEnd(TrimStart(s))

\* Objects as sets of <<key, value>> pairs.
Keys(obj) == {p[1] : p \in obj}

HasKey(obj, k) == k \in Keys(obj)

Get(obj, k) == (CHOOSE p \in obj : p[1] = k)[2]

\* { ...a, ...b }
Spread(a, b) == {p \in a : p[1] \notin Keys(b)} \cup b

RemoveAt(s, i) == SubSeq(s, 1, i - 1) \o SubSeq(s, i + 1, Len(s))

----------------------------------------------------------------------------
\* Agent type registry (types/index.ts).

agentTypes == <<
  [id |-> "conversational", supportedFormats |-> <<>>, supportedLanguages |-> <<>>, features |-> <<>>],
  [id |-> "rag", supportedFormats |-> <<".pdf", ".txt", ".doc", ".docx", ".xlsx", ".xls", ".csv", ".pptx", ".ppt", ".png", ".jpg", ".jpeg", ".gif", ".bmp", ".md", ".json">>, supportedLanguages |-> <<>>, features |-> <<>>],
  [id |-> "tool_calling", supportedFormats |-> <<>>, supportedLanguages |-> <<>>, features |-> <<"Sample Tools (multiply, add)", "Custom Tool Creation", "Python Code Tools", "Tool Execution Tracking">>],
  [id |-> "coding", supportedFormats |-> <<>>, supportedLanguages |-> <<"python", "javascript", "typescript", "java", "c++", "go", "rust">>, features |-> <<"Code Generation", "Error Troubleshooting", "Code Explanation", "Best Practices", "Code Review", "Performance Tips">>] >>

AgentType == {agentTypes[i].id : i \in DOMAIN agentTypes}

----------------------------------------------------------------------------
\* API client (services/api.ts).  An HTTP response is
\*   [ok, parseable, detail, data]: response.ok, whether response.json()
\*   parses the body, the body's detail field and the body's payload.
\* An operation's outcome is [rejected, message, value].

Reject(msg) == [rejected |-> TRUE, message |-> msg, value |-> Null]

Resolve(v) == [rejected |-> FALSE, message |-> Null, value |-> v]

\* The error response.json() throws on a body that is not JSON.
SyntaxErrorMessage == "SyntaxError: Unexpected token < in JSON at position 0"

\* data.detail || generic
DetailOr(detail, generic) == IF detail \notin {Undefined, ""} THEN detail ELSE generic

\* const data = await response.json(); if (!response.ok) throw new Error(data.detail || generic)
\* The outcome when the operation fails this way, Resolve(data) otherwise.
JsonThenCheck(resp, generic) == IF ~resp.parseable THEN Reject(SyntaxErrorMessage) ELSE IF ~resp.ok THEN Reject(DetailOr(resp.detail, generic)) ELSE Resolve(resp.data)

\* String.prototype.toLowerCase on the type names the service sends.
ToLowerCase(t) == CASE t \in {"CONVERSATIONAL", "Conversational"} -> "conversational" [] t \in {"RAG", "Rag"} -> "rag" [] t \in {"TOOL_CALLING", "Tool_Calling"} -> "tool_calling" [] t \in {"CODING", "Coding"} -> "coding" [] OTHER -> t

SampleNames == {"multiply", "add"}

\* A flag that is the server's alone.
SampleFlagOfServer(tool) == IF tool.is_sample = "true" THEN "true" ELSE "false"

\* tool.is_sample || ['multiply', 'add'].includes(tool.name); a JSON boolean is "true" / "false"
SampleFlag(tool) == IF tool.is_sample = "true" THEN "true" ELSE IF tool.name \in SampleNames THEN "true" ELSE "false"

WithSampleFlag(tool) == [tool EXCEPT !.is_sample = SampleFlag(tool)]

NotSample(tool) == [tool EXCEPT !.is_sample = "false"]

listTools(resp) == LET r == JsonThenCheck(resp, "Failed to list tools") IN IF r.rejected THEN r ELSE Resolve([i \in DOMAIN r.value |-> WithSampleFlag(r.value[i])])

getTool(resp) == LET r == JsonThenCheck(resp, "Failed to get tool") IN IF r.rejected THEN r ELSE Resolve(WithSampleFlag(r.value))

createTool(resp) == LET r == JsonThenCheck(resp, "Failed to create tool") IN IF r.rejected THEN r ELSE Resolve(NotSample(r.value))

createToolFromCode(resp) == LET r == JsonThenCheck(resp, "Failed to create tool from code") IN IF r.rejected THEN r ELSE Resolve(NotSample(r.value))

\* deleteTool reads the body only when the response is not ok.
deleteTool(resp) == IF resp.ok THEN Resolve(Undefined) ELSE IF ~resp.parseable THEN Reject(SyntaxErrorMessage) ELSE Reject(DetailOr(resp.detail, "Failed to delete tool"))

executeToolDirectly(resp) == JsonThenCheck(resp, "Failed to execute tool")

listAgents(resp) == LET r == JsonThenCheck(resp, "Failed to list agents") IN IF r.rejected THEN r ELSE Resolve([i \in DOMAIN r.value |-> [r.value[i] EXCEPT !.type = ToLowerCase(r.value[i].type)]])

\* createAgent before the request: the local check and the body posted.
\* agent is a Partial<Agent>: an object, a missing field has no pair.
createAgentMissing(agent) == (~HasKey(agent, "name") \/ Get(agent, "name") = <<>>) \/ (~HasKey(agent, "type") \/ Get(agent, "type") = "")

\* A body that is the argument as it came.
createAgentBodyAsGiven(agent) == agent

createAgentBody(agent) == Spread(agent, {<<"status", IF HasKey(agent, "status") /\ Get(agent, "status") # "" THEN Get(agent, "status") ELSE "active">>, <<"configuration", IF HasKey(agent, "configuration") THEN Get(agent, "configuration") ELSE {}>>})

\* createAgent after the response.
createAgent(resp) == LET r == JsonThenCheck(resp, "Failed to create agent") IN IF r.rejected THEN r ELSE Resolve([r.value EXCEPT !.type = ToLowerCase(r.value.type)])

uploadDocument(resp) == JsonThenCheck(resp, "Failed to upload document")

\* The multipart form queryAgent posts.
queryAgentForm(query, context) == {<<"query", query>>} \cup context

queryAgent(query, resp) == LET r == JsonThenCheck(resp, "Failed to query agent") IN IF r.rejected THEN r ELSE Resolve([response |-> r.value.response, message |-> query, metadata |-> r.value.metadata])

deleteAgent(resp) == JsonThenCheck(resp, "Failed to delete agent")

interactWithAgent(msg, resp) == LET r == JsonThenCheck(resp, "Failed to interact with agent") IN IF r.rejected THEN r ELSE Resolve([response |-> r.value.response, message |-> msg, metadata |-> r.value.metadata])

----------------------------------------------------------------------------
\* The remote service, as the controller sees it.  What the service answers
\* is outside the repository: each request gets either a 2xx response
\* with a representative payload or an error response.

\* Agent types as the service spells them (listAgents and createAgent
\* lower-case them).
ServerSpelling(t) == CASE t = "conversational" -> "Conversational" [] t = "rag" -> "RAG" [] t = "tool_calling" -> "TOOL_CALLING" [] t = "coding" -> "Coding" [] OTHER -> t

\* The agents the service may hold when the page loads, by type.
LoadableAgents == {<<>>, <<"rag">>, <<"coding">>, <<"conversational", "coding">>}

\* The first id the service gives an agent created from the page.
FirstCreatedId == 2

ServerAgent(i, t, n, c) == [id |-> i, name |-> n, type |-> ServerSpelling(t), status |-> "active", configuration |-> c]

\* GET /agents/ payloads: agents 1..n.
ServerAgentLists == {[i \in DOMAIN ts |-> ServerAgent(i, ts[i], <<"agent">>, {})] : ts \in LoadableAgents}

OkResponse(data) == [ok |-> TRUE, parseable |-> TRUE, detail |-> Undefined, data |-> data]

ErrorResponse == [ok |-> FALSE, parseable |-> TRUE, detail |-> "Internal Server Error", data |-> Null]

\* POST /agents/{id}/query payload: the reply names the text it answers.
QueryPayload(text) == [response |-> <<"re:">> \o text, metadata |-> [language |-> Undefined, formatted_code |-> <<>>]]

----------------------------------------------------------------------------
\* Home: pure parts of the handlers.

ToolRequiredMessage == "Please select at least one tool for the Tool Agent"

DefaultPromptTemplate == <<"You are a helpful AI assistant. Please respond to the following message:", "\n", "\n", "{input}">>

\* Another prompt for the summary.
SummaryPromptShort == <<"Summarise this document.">>

SummaryPrompt == <<"Please provide a brief summary of this document.">>

EmptyDraft(type) == [name |-> <<>>, type |-> type, configuration |-> {}]

\* A view that shows the chat before the form.
ViewOfChatFirst(creating, agent, hasDoc) == IF agent # NullAgent THEN (IF agent.type = "rag" /\ ~hasDoc THEN "DocumentUpload" ELSE "ChatInterface") ELSE IF creating THEN "AgentCreationForm" ELSE "WelcomeScreen"

\* The content area's view (the nested conditionals of the render).
ViewOf(creating, agent, hasDoc) == IF creating THEN "AgentCreationForm" ELSE IF agent # NullAgent THEN (IF agent.type = "rag" /\ ~hasDoc THEN "DocumentUpload" ELSE "ChatInterface") ELSE "WelcomeScreen"

View == ViewOf(isCreating, selectedAgent, hasDocument)

\* AgentCreationForm renders ToolManager instead of the form fields.
ShowsToolManager == isCreating /\ showToolManager /\ newAgent.type = "tool_calling"

\* A selection effect that keeps the document flag.
selectionEffectKeepsDocument(agent, mode) == [hasDocument |-> hasDocument, currentDocument |-> Null, messages |-> <<>>, codingMode |-> IF agent.type = "coding" THEN "generate" ELSE mode]

\* The state the selection effect writes: [hasDocument, currentDocument, messages, codingMode].
selectionEffect(agent, mode) == [hasDocument |-> FALSE, currentDocument |-> Null, messages |-> <<>>, codingMode |-> IF agent.type = "coding" THEN "generate" ELSE mode]

\* A user message that carries its language in troubleshoot mode only.
userMessageTroubleshootOnly(agent, text, lang, mode) == [role |-> "user", content |-> text, language |-> IF agent.type = "coding" /\ mode = "troubleshoot" THEN lang ELSE Undefined, code |-> <<>>, error |-> IF agent.type = "coding" /\ mode = "troubleshoot" THEN "true" ELSE "false"]

\* The user Message of handleMessageSend.
userMessage(agent, text, lang, mode) == [role |-> "user", content |-> text, language |-> IF agent.type = "coding" THEN lang ELSE Undefined, code |-> <<>>, error |-> IF agent.type = "coding" /\ mode = "troubleshoot" THEN "true" ELSE "false"]

\* `${msg.role === 'user' ? 'User' : 'Assistant'}: ${msg.content}`
historyLine(msg) == <<IF msg.role = "user" THEN "User" ELSE "Assistant", ": ">> \o msg.content

HistoryLength == 5

\* A history of all the messages.
allMessages(msgs) == Join([i \in DOMAIN msgs |-> historyLine(msgs[i])], <<"\n">>)

lastFiveMessages(msgs) == LET last == SliceLast(msgs, HistoryLength) IN Join([i \in DOMAIN last |-> historyLine(last[i])], <<"\n">>)

messageWithHistory(msgs, text) == IF lastFiveMessages(msgs) # <<>> THEN <<"Chat history:", "\n">> \o lastFiveMessages(msgs) \o <<"\n", "\n", "New message:", "\n">> \o text ELSE text

queryContext(agent, lang, mode) == IF agent.type = "coding" THEN {<<"language", lang>>, <<"mode", mode>>} ELSE {}

\* The assistant Message of handleMessageSend.
agentMessage(response, lang) == [role |-> "assistant", content |-> response.response, language |-> IF response.metadata.language \notin {Undefined, ""} THEN response.metadata.language ELSE lang, code |-> response.metadata.formatted_code, error |-> Undefined]

\* The single Message of handleFileUpload.
summaryMessage(response) == [role |-> "assistant", content |-> response.response, language |-> Undefined, code |-> <<>>, error |-> Undefined]

toolNames(tools) == [i \in DOMAIN tools |-> tools[i].name]

\* `- ${tool.name}: ${tool.description}`
toolLine(tool) == <<"- ", tool.name, ": ", tool.description>>

toolPromptTemplate(tools) == <<"You are an AI assistant with access to the following tools:", "\n">> \o Join([i \in DOMAIN tools |-> toolLine(tools[i])], <<"\n">>) \o <<"\n", "\n", "Please help with the following request:", "\n", "{input}">>

\* A validation that lets a tool_calling draft without tools through.
toolValidationNever(draft, tools) == FALSE

toolValidationFails(draft, tools) == draft.type = "tool_calling" /\ Len(tools) = 0

\* A configuration that is the draft's alone.
agentConfigurationOfDraft(draft, tools) == draft.configuration

\* The configuration handleCreateAgent submits.
agentConfiguration(draft, tools) == Spread(draft.configuration, IF draft.type = "tool_calling" THEN {<<"tools", toolNames(tools)>>, <<"prompt_template", toolPromptTemplate(tools)>>} ELSE {})

\* agentData, the Partial<Agent> handed to api.createAgent.
agentData(draft, tools) == {<<"name", draft.name>>, <<"type", draft.type>>, <<"configuration", agentConfiguration(draft, tools)>>}

\* AgentCreationForm.handleTypeChange: the draft's new configuration.
defaultConfig(type) == IF type = "conversational" THEN {<<"prompt_template", DefaultPromptTemplate>>} ELSE {}

\* removeSelectedTool: selectedTools.filter(t => t.name !== toolName)
RECURSIVE withoutTool(_, _)
withoutTool(tools, name) == IF tools = <<>> THEN <<>> ELSE (IF Head(tools).name # name THEN <<Head(tools)>> ELSE <<>>) \o withoutTool(Tail(tools), name)

\* A Create Agent button that stays enabled while loading.
submitEnabledWhileLoading == ~(newAgent.name = <<>> \/ (newAgent.type = "tool_calling" /\ Len(selectedTools) = 0))

\* The Create Agent button is enabled.
submitEnabled == ~(isLoading \/ newAgent.name = <<>> \/ (newAgent.type = "tool_calling" /\ Len(selectedTools) = 0))

----------------------------------------------------------------------------
\* ToolManager: pure parts.

DefaultCode == "def run(**kwargs) -> Dict[str, Any]: ..."

ToolSelectedMessage == "Tool selected successfully! Returning to agent creation..."

ToolCreatedMessage == "Tool created successfully! Returning to agent creation..."

\* The tools the service holds (GET /tools payload).
ServerTools == <<[name |-> "add", description |-> "Add two numbers", created_by |-> "system", is_sample |-> Undefined], [name |-> "search", description |-> "Search the web", created_by |-> "user", is_sample |-> "false"]>>

\* POST /tools and POST /tools/code payloads: the tool the service made.
CreatedTool(req) == [name |-> IF req.op = "createToolFromCode" THEN req.name ELSE "described", description |-> IF req.op = "createToolFromCode" THEN "Custom code tool" ELSE req.description, created_by |-> "user", is_sample |-> Undefined]

selectedToolOf(tool) == [name |-> tool.name, description |-> tool.description]

\* onToolSelect of AgentCreationForm: the new selectedTools.
onToolSelect(tools, tool) == IF \E i \in DOMAIN tools : tools[i].name = tool.name THEN tools ELSE Append(tools, selectedToolOf(tool))

\* onToolCreate of AgentCreationForm: the new selectedTools.
onToolCreate(tools, tool) == Append(tools, selectedToolOf(tool))

\* The Create button of ToolManager is enabled.
createToolEnabled == ~(tmLoading \/ (description = "" /\ toolName = "") \/ (creationMode = "code" /\ code = ""))

\* A pending ToolManager request whose component has unmounted.
Orphaned(reqs) == [i \in DOMAIN reqs |-> [reqs[i] EXCEPT !.mounted = FALSE]]

\* The state of a ToolManager that is not mounted (its useState initial values).
TMReset == /\ tmTools' = <<>>
           /\ tmIsCreating' = FALSE
           /\ creationMode' = "description"
           /\ description' = ""
           /\ toolName' = ""
           /\ code' = DefaultCode
           /\ tmError' = ""
           /\ tmLoading' = FALSE
           /\ successMessage' = ""
           /\ tmTimer' = FALSE

----------------------------------------------------------------------------
\* React: what a render after a state change schedules.

\* The effects pending after a step, given those pending before it (base):
\* an effect is scheduled when its dependency changed, ToolManager's mount
\* effects when it mounts, and an unmounted ToolManager has none.
EffectsAfter(base) == LET e == base \cup (IF selectedAgent' # selectedAgent THEN {"selectedAgent"} ELSE {}) \cup (IF selectedType' # selectedType THEN {"selectedType"} ELSE {}) \cup (IF ~ShowsToolManager /\ ShowsToolManager' THEN {"toolManager"} ELSE {}) \cup (IF successMessage' # successMessage THEN {"successMessage"} ELSE {}) IN IF ShowsToolManager' THEN e ELSE e \ {"toolManager", "successMessage"}

\* Render after a step of Home or the form: ToolManager unmounts when the
\* form stops showing it (its state is dropped, its timer cleared, its
\* pending requests go on without it).
RenderHome == /\ UNCHANGED aloneVars
              /\ IF ShowsToolManager /\ ~ShowsToolManager' THEN TMReset /\ toolReqs' = Orphaned(toolReqs) ELSE UNCHANGED <<tmVars, toolReqs>>
              /\ pendingEffects' = EffectsAfter(pendingEffects)

\* User events are handled with no effect pending.
Ready == pendingEffects = {}

----------------------------------------------------------------------------
\* State after the first render, before the mount effects.

InitHome == /\ agents = <<>>
            /\ selectedAgent = NullAgent
            /\ selectedType = "conversational"
            /\ isCreating = FALSE
            /\ isLoading = FALSE
            /\ error = Null
            /\ newAgent = EmptyDraft("conversational")
            /\ selectedTools = <<>>
            /\ showToolManager = FALSE
            /\ message = <<>>
            /\ messages = <<>>
            /\ selectedLanguage = "python"
            /\ codingMode = "generate"
            /\ isProcessingDocument = FALSE
            /\ hasDocument = FALSE
            /\ currentDocument = Null

InitToolManager == /\ tmTools = <<>>
                   /\ tmIsCreating = FALSE
                   /\ creationMode = "description"
                   /\ description = ""
                   /\ toolName = ""
                   /\ code = DefaultCode
                   /\ tmError = ""
                   /\ tmLoading = FALSE
                   /\ successMessage = ""
                   /\ tmTimer = FALSE

InitNet == /\ listReqs = <<>>
           /\ createReqs = <<>>
           /\ queryReqs = <<>>
           /\ uploadReqs = <<>>
           /\ toolReqs = <<>>
           /\ serverNextId = FirstCreatedId

----------------------------------------------------------------------------
\* KazuriChat (frontend_3/components/AgentTest/index.tsx): the Describe
\* tab's chat.  A Message here is [type, content].

\* The useState initial value of chatMessages.
InitialChat == <<[type |-> "user", content |-> <<"Hello! I'd like to create an AI agent for iot sim management.">>], [type |-> "assistant", content |-> <<"Great! Let's get started. Describe your agent's main function.">>]>>

\* The delay of the reply's setTimeout, in milliseconds.
ReplyDelay == 800

\* Time is observed in steps of half that delay.
TimeStep == ReplyDelay \div 2

\* `AI response for: "${userMsg.content}"`
aiMsg(userMsg) == [type |-> "assistant", content |-> <<"AI response for: \"">> \o userMsg.content \o <<"\"">>]

UnchangedByKazuri == UNCHANGED <<homeVars, tmVars, pendingEffects, netVars, apiCall, registry, typeLookup>>

\* A send that keeps the text as typed.
handleSendMessageUntrimmed ==
  /\ IF Trim(inputValue) = <<>>
       THEN UNCHANGED <<chatMessages, inputValue, timers>>
       ELSE /\ chatMessages' = Append(chatMessages, [type |-> "user", content |-> inputValue])
            /\ inputValue' = <<>>
            /\ timers' = Append(timers, [userMsg |-> [type |-> "user", content |-> inputValue], remaining |-> ReplyDelay])
  /\ UNCHANGED currentTab
  /\ UnchangedByKazuri

\* handleSendMessage; the callback it hands to setTimeout closes over
\* userMsg and is kept with the time left until it runs.
handleSendMessage ==
  /\ IF Trim(inputValue) = <<>>
       THEN UNCHANGED <<chatMessages, inputValue, timers>>
       ELSE /\ chatMessages' = Append(chatMessages, [type |-> "user", content |-> Trim(inputValue)])
            /\ inputValue' = <<>>
            /\ timers' = Append(timers, [userMsg |-> [type |-> "user", content |-> Trim(inputValue)], remaining |-> ReplyDelay])
  /\ UNCHANGED currentTab
  /\ UnchangedByKazuri

\* The callback of pending timeout i runs: setChatMessages(prev => [...prev, aiMsg]).
\* Timeouts that are due run in the order they were set.
replyTimeout(i) ==
  /\ i \in DOMAIN timers
  /\ timers[i].remaining = 0
  /\ \A j \in 1..(i - 1) : timers[j].remaining # 0
  /\ chatMessages' = Append(chatMessages, aiMsg(timers[i].userMsg))
  /\ timers' = RemoveAt(timers, i)
  /\ UNCHANGED <<currentTab, inputValue>>
  /\ UnchangedByKazuri

\* TimeStep milliseconds pass; a timeout that is due runs before more time passes.
TimePasses ==
  /\ timers # <<>>
  /\ \A i \in DOMAIN timers : timers[i].remaining >= TimeStep
  /\ timers' = [i \in DOMAIN timers |-> [timers[i] EXCEPT !.remaining = @ - TimeStep]]
  /\ UNCHANGED <<currentTab, chatMessages, inputValue>>
  /\ UnchangedByKazuri

\* onChange of the chat input: setInputValue(e.target.value).
TypeChatInput(v) == currentTab = "Describe" /\ inputValue' = v /\ UNCHANGED <<currentTab, chatMessages, timers>> /\ UnchangedByKazuri

\* Enter in the chat input, or its send button.
SubmitChatInput == currentTab = "Describe" /\ handleSendMessage

\* The tab buttons: setCurrentTab(tab).
ClickTab(tab) == currentTab' = tab /\ UNCHANGED <<chatMessages, inputValue, timers>> /\ UnchangedByKazuri

ApiIdle == [phase |-> "idle"]

Init == /\ InitHome
        /\ InitToolManager
        /\ InitNet
        /\ pendingEffects = {"mount", "selectedAgent", "selectedType"}
        /\ apiCall = ApiIdle
        /\ registry = agentTypes
        /\ typeLookup = [phase |-> "idle"]
        /\ currentTab = "Describe"
        /\ chatMessages = InitialChat
        /\ inputValue = <<>>
        /\ timers = <<>>

----------------------------------------------------------------------------
\* The effects (Home's three useEffect, ToolManager's two), run in one flush:
\* ToolManager's (the child's) first, then Home's in source order.

FlushEffects ==
  /\ pendingEffects # {}
  /\ LET runMount == "mount" \in pendingEffects
         runSelection == "selectedAgent" \in pendingEffects /\ selectedAgent # NullAgent
         runType == "selectedType" \in pendingEffects
         runLoadTools == "toolManager" \in pendingEffects
         runTimer == "successMessage" \in pendingEffects \/ runLoadTools
         sel == selectionEffect(selectedAgent, codingMode)
         issued == IF runLoadTools THEN Append(toolReqs, [op |-> "listTools", mounted |-> TRUE, name |-> "", description |-> "", tools |-> <<>>, selectedTools |-> <<>>]) ELSE toolReqs
     IN /\ isLoading' = IF runMount THEN TRUE ELSE isLoading
        /\ listReqs' = IF runMount THEN Append(listReqs, [op |-> "listAgents"]) ELSE listReqs
        /\ hasDocument' = IF runSelection THEN sel.hasDocument ELSE hasDocument
        /\ currentDocument' = IF runSelection THEN sel.currentDocument ELSE currentDocument
        /\ messages' = IF runSelection THEN sel.messages ELSE messages
        /\ codingMode' = IF runSelection THEN sel.codingMode ELSE codingMode
        /\ newAgent' = IF runType THEN [newAgent EXCEPT !.type = selectedType, !.configuration = {}] ELSE newAgent
        /\ UNCHANGED <<agents, selectedAgent, selectedType, isCreating, error, selectedTools, showToolManager, message, selectedLanguage, isProcessingDocument>>
        /\ UNCHANGED <<createReqs, queryReqs, uploadReqs, serverNextId, aloneVars>>
        /\ IF ShowsToolManager /\ ~ShowsToolManager'
             THEN TMReset /\ toolReqs' = Orphaned(issued)
             ELSE /\ tmLoading' = IF runLoadTools THEN TRUE ELSE tmLoading
                  /\ tmTimer' = IF runTimer THEN successMessage # "" ELSE tmTimer
                  /\ toolReqs' = issued
                  /\ UNCHANGED <<tmTools, tmIsCreating, creationMode, description, toolName, code, tmError, successMessage>>
        /\ pendingEffects' = EffectsAfter({})

----------------------------------------------------------------------------
\* What the user can enter.

NameInputs == {<<>>, <<"bot">>}

PromptInputs == {<<"Answer briefly: ", "{input}">>}

MessageInputs == {<<" ">>, <<"hi">>, <<" ", "yo">>}

Files == {"report.pdf"}

LanguageChoices == {"python", "rust"}

CodingModes == {"generate", "troubleshoot", "explain"}

DescriptionInputs == {"", "look things up"}

ToolNameInputs == {"", "add"}

----------------------------------------------------------------------------
\* Handlers of Home.

handleStartCreating ==
  /\ isCreating' = TRUE
  /\ newAgent' = EmptyDraft(selectedType)
  /\ UNCHANGED <<agents, selectedAgent, selectedType, isLoading, error, selectedTools, showToolManager>>
  /\ UNCHANGED <<chatVars, docVars, listReqs, createReqs, queryReqs, uploadReqs, serverNextId>>
  /\ RenderHome

\* A type filter that also deselects the agent.
onTypeSelectDeselects(t) ==
  /\ selectedType' = t
  /\ selectedAgent' = NullAgent
  /\ UNCHANGED <<agents, isCreating, isLoading, error, draftVars>>
  /\ UNCHANGED <<chatVars, docVars, listReqs, createReqs, queryReqs, uploadReqs, serverNextId>>
  /\ RenderHome

\* onTypeSelect = setSelectedType
onTypeSelect(t) ==
  /\ selectedType' = t
  /\ UNCHANGED <<agents, selectedAgent, isCreating, isLoading, error, draftVars>>
  /\ UNCHANGED <<chatVars, docVars, listReqs, createReqs, queryReqs, uploadReqs, serverNextId>>
  /\ RenderHome

\* A selection that also ends the loading state.
onAgentSelectStopsLoading(agent) ==
  /\ selectedAgent' = agent
  /\ isLoading' = FALSE
  /\ UNCHANGED <<agents, selectedType, isCreating, error, draftVars>>
  /\ UNCHANGED <<chatVars, docVars, listReqs, createReqs, queryReqs, uploadReqs, serverNextId>>
  /\ RenderHome

\* onAgentSelect = setSelectedAgent
onAgentSelect(agent) ==
  /\ selectedAgent' = agent
  /\ UNCHANGED <<agents, selectedType, isCreating, isLoading, error, draftVars>>
  /\ UNCHANGED <<chatVars, docVars, listReqs, createReqs, queryReqs, uploadReqs, serverNextId>>
  /\ RenderHome

dismissError ==
  /\ error' = Null
  /\ UNCHANGED <<agents, selectedAgent, selectedType, isCreating, isLoading, draftVars>>
  /\ UNCHANGED <<chatVars, docVars, listReqs, createReqs, queryReqs, uploadReqs, serverNextId>>
  /\ RenderHome

\* onAgentChange = setNewAgent, from the form's fields.
onAgentChange(draft) ==
  /\ newAgent' = draft
  /\ UNCHANGED <<coreVars, selectedTools, showToolManager>>
  /\ UNCHANGED <<chatVars, docVars, listReqs, createReqs, queryReqs, uploadReqs, serverNextId>>
  /\ RenderHome

\* AgentCreationForm.handleTypeChange
handleTypeChange(t) ==
  /\ newAgent' = [newAgent EXCEPT !.type = t, !.configuration = defaultConfig(t)]
  /\ showToolManager' = (t = "tool_calling")
  /\ selectedTools' = IF t = "tool_calling" THEN selectedTools ELSE <<>>
  /\ UNCHANGED coreVars
  /\ UNCHANGED <<chatVars, docVars, listReqs, createReqs, queryReqs, uploadReqs, serverNextId>>
  /\ RenderHome

\* onShowToolManagerChange = setShowToolManager, from the form
onShowToolManagerChange(show) ==
  /\ showToolManager' = show
  /\ UNCHANGED <<coreVars, newAgent, selectedTools>>
  /\ UNCHANGED <<chatVars, docVars, listReqs, createReqs, queryReqs, uploadReqs, serverNextId>>
  /\ RenderHome

removeSelectedTool(name) ==
  /\ selectedTools' = withoutTool(selectedTools, name)
  /\ UNCHANGED <<coreVars, newAgent, showToolManager>>
  /\ UNCHANGED <<chatVars, docVars, listReqs, createReqs, queryReqs, uploadReqs, serverNextId>>
  /\ RenderHome

\* A cancel that keeps the tools chosen.
onCancelKeepsTools ==
  /\ isCreating' = FALSE
  /\ newAgent' = EmptyDraft(selectedType)
  /\ showToolManager' = FALSE
  /\ UNCHANGED <<agents, selectedAgent, selectedType, isLoading, error, selectedTools>>
  /\ UNCHANGED <<chatVars, docVars, listReqs, createReqs, queryReqs, uploadReqs, serverNextId>>
  /\ RenderHome

onCancel ==
  /\ isCreating' = FALSE
  /\ newAgent' = EmptyDraft(selectedType)
  /\ selectedTools' = <<>>
  /\ showToolManager' = FALSE
  /\ UNCHANGED <<agents, selectedAgent, selectedType, isLoading, error>>
  /\ UNCHANGED <<chatVars, docVars, listReqs, createReqs, queryReqs, uploadReqs, serverNextId>>
  /\ RenderHome

\* handleCreateAgent up to its await.  api.createAgent rejects a draft without
\* name or type before any request; the rejection is caught in the same turn.
handleCreateAgent ==
  /\ LET data == agentData(newAgent, selectedTools)
     IN IF toolValidationFails(newAgent, selectedTools)
          THEN error' = ToolRequiredMessage /\ isLoading' = FALSE /\ UNCHANGED createReqs
          ELSE IF createAgentMissing(data)
            THEN error' = "Failed to create agent" /\ isLoading' = FALSE /\ UNCHANGED createReqs
            ELSE /\ error' = Null
                 /\ isLoading' = TRUE
                 /\ createReqs' = Append(createReqs, [body |-> createAgentBody(data), agents |-> agents, selectedType |-> selectedType])
  /\ UNCHANGED <<agents, selectedAgent, selectedType, isCreating, draftVars>>
  /\ UNCHANGED <<chatVars, docVars, listReqs, queryReqs, uploadReqs, serverNextId>>
  /\ RenderHome

\* handleMessageSend up to its await.
handleMessageSend ==
  /\ IF selectedAgent = NullAgent \/ Trim(message) = <<>>
       THEN UNCHANGED <<isLoading, messages, message, queryReqs>>
       ELSE /\ isLoading' = TRUE
            /\ messages' = Append(messages, userMessage(selectedAgent, message, selectedLanguage, codingMode))
            /\ message' = <<>>
            /\ queryReqs' = Append(queryReqs, [agentId |-> selectedAgent.id, query |-> messageWithHistory(messages, message), context |-> queryContext(selectedAgent, selectedLanguage, codingMode), text |-> message, selectedLanguage |-> selectedLanguage])
  /\ UNCHANGED <<agents, selectedAgent, selectedType, isCreating, error, draftVars>>
  /\ UNCHANGED <<selectedLanguage, codingMode, docVars, listReqs, createReqs, uploadReqs, serverNextId>>
  /\ RenderHome

\* handleFileUpload up to its first await.  selectedAgent!.id throws inside
\* the try when no agent is selected.
handleFileUpload(file) ==
  /\ IF selectedAgent = NullAgent
       THEN error' = "Failed to process document" /\ isProcessingDocument' = FALSE /\ UNCHANGED uploadReqs
       ELSE /\ isProcessingDocument' = TRUE
            /\ uploadReqs' = Append(uploadReqs, [stage |-> "upload", agentId |-> selectedAgent.id, file |-> file, form |-> {}])
            /\ UNCHANGED error
  /\ UNCHANGED <<agents, selectedAgent, selectedType, isCreating, isLoading, draftVars>>
  /\ UNCHANGED <<chatVars, hasDocument, currentDocument, listReqs, createReqs, queryReqs, serverNextId>>
  /\ RenderHome

onMessageChange(text) ==
  /\ message' = text
  /\ UNCHANGED <<coreVars, draftVars, messages, selectedLanguage, codingMode>>
  /\ UNCHANGED <<docVars, listReqs, createReqs, queryReqs, uploadReqs, serverNextId>>
  /\ RenderHome

onLanguageChange(lang) ==
  /\ selectedLanguage' = lang
  /\ UNCHANGED <<coreVars, draftVars, messages, message, codingMode>>
  /\ UNCHANGED <<docVars, listReqs, createReqs, queryReqs, uploadReqs, serverNextId>>
  /\ RenderHome

onCodingModeChange(mode) ==
  /\ codingMode' = mode
  /\ UNCHANGED <<coreVars, draftVars, messages, message, selectedLanguage>>
  /\ UNCHANGED <<docVars, listReqs, createReqs, queryReqs, uploadReqs, serverNextId>>
  /\ RenderHome

----------------------------------------------------------------------------
\* Continuations of Home's awaited calls: request i gets response resp.

\* A loadAgents that selects the first fetched agent.
loadAgentsDoneSelectsFirst(i, resp) ==
  /\ i \in DOMAIN listReqs
  /\ listReqs' = RemoveAt(listReqs, i)
  /\ LET r == listAgents(resp)
     IN IF r.rejected
          THEN error' = "Failed to load agents" /\ UNCHANGED <<agents, selectedAgent>>
          ELSE agents' = r.value /\ selectedAgent' = (IF r.value = <<>> THEN selectedAgent ELSE r.value[1]) /\ UNCHANGED error
  /\ isLoading' = FALSE
  /\ UNCHANGED <<selectedType, isCreating, draftVars>>
  /\ UNCHANGED <<chatVars, docVars, createReqs, queryReqs, uploadReqs, serverNextId>>
  /\ RenderHome

loadAgentsDone(i, resp) ==
  /\ i \in DOMAIN listReqs
  /\ listReqs' = RemoveAt(listReqs, i)
  /\ LET r == listAgents(resp)
     IN IF r.rejected
          THEN error' = "Failed to load agents" /\ UNCHANGED agents
          ELSE agents' = r.value /\ UNCHANGED error
  /\ isLoading' = FALSE
  /\ UNCHANGED <<selectedAgent, selectedType, isCreating, draftVars>>
  /\ UNCHANGED <<chatVars, docVars, createReqs, queryReqs, uploadReqs, serverNextId>>
  /\ RenderHome

\* A creation handler that puts the created agent first.
handleCreateAgentDonePrepends(i, resp) ==
  /\ i \in DOMAIN createReqs
  /\ createReqs' = RemoveAt(createReqs, i)
  /\ LET req == createReqs[i]
         r == createAgent(resp)
     IN IF r.rejected
          THEN /\ error' = "Failed to create agent"
               /\ UNCHANGED <<agents, isCreating, selectedAgent, draftVars, serverNextId>>
          ELSE /\ agents' = <<r.value>> \o req.agents
               /\ isCreating' = FALSE
               /\ selectedAgent' = r.value
               /\ newAgent' = EmptyDraft(req.selectedType)
               /\ selectedTools' = <<>>
               /\ showToolManager' = FALSE
               /\ serverNextId' = serverNextId + 1
               /\ UNCHANGED error
  /\ isLoading' = FALSE
  /\ UNCHANGED <<selectedType, chatVars, docVars, listReqs, queryReqs, uploadReqs>>
  /\ RenderHome

\* agents and selectedType are the values handleCreateAgent closed over.
handleCreateAgentDone(i, resp) ==
  /\ i \in DOMAIN createReqs
  /\ createReqs' = RemoveAt(createReqs, i)
  /\ LET req == createReqs[i]
         r == createAgent(resp)
     IN IF r.rejected
          THEN /\ error' = "Failed to create agent"
               /\ UNCHANGED <<agents, isCreating, selectedAgent, draftVars, serverNextId>>
          ELSE /\ agents' = Append(req.agents, r.value)
               /\ isCreating' = FALSE
               /\ selectedAgent' = r.value
               /\ newAgent' = EmptyDraft(req.selectedType)
               /\ selectedTools' = <<>>
               /\ showToolManager' = FALSE
               /\ serverNextId' = serverNextId + 1
               /\ UNCHANGED error
  /\ isLoading' = FALSE
  /\ UNCHANGED <<selectedType, chatVars, docVars, listReqs, queryReqs, uploadReqs>>
  /\ RenderHome

\* A continuation that drops the answer when its agent is no longer selected.
handleMessageSendDoneChecksAgent(i, resp) ==
  /\ i \in DOMAIN queryReqs
  /\ queryReqs' = RemoveAt(queryReqs, i)
  /\ LET req == queryReqs[i]
         r == queryAgent(req.query, resp)
     IN IF r.rejected
          THEN error' = "Failed to send message" /\ UNCHANGED messages
          ELSE messages' = (IF req.agentId = selectedAgent.id THEN Append(messages, agentMessage(r.value, req.selectedLanguage)) ELSE messages) /\ UNCHANGED error
  /\ isLoading' = FALSE
  /\ UNCHANGED <<agents, selectedAgent, selectedType, isCreating, draftVars>>
  /\ UNCHANGED <<message, selectedLanguage, codingMode, docVars, listReqs, createReqs, uploadReqs, serverNextId>>
  /\ RenderHome

\* A continuation that leaves an error already shown in place.
handleMessageSendDoneKeepsError(i, resp) ==
  /\ i \in DOMAIN queryReqs
  /\ queryReqs' = RemoveAt(queryReqs, i)
  /\ LET req == queryReqs[i]
         r == queryAgent(req.query, resp)
     IN IF r.rejected
          THEN error' = (IF error = Null THEN "Failed to send message" ELSE error) /\ UNCHANGED messages
          ELSE messages' = Append(messages, agentMessage(r.value, req.selectedLanguage)) /\ UNCHANGED error
  /\ isLoading' = FALSE
  /\ UNCHANGED <<agents, selectedAgent, selectedType, isCreating, draftVars>>
  /\ UNCHANGED <<message, selectedLanguage, codingMode, docVars, listReqs, createReqs, uploadReqs, serverNextId>>
  /\ RenderHome

\* A continuation that takes the user's message back when the query fails.
handleMessageSendDoneRollsBack(i, resp) ==
  /\ i \in DOMAIN queryReqs
  /\ queryReqs' = RemoveAt(queryReqs, i)
  /\ LET req == queryReqs[i]
         r == queryAgent(req.query, resp)
     IN IF r.rejected
          THEN error' = "Failed to send message" /\ messages' = SubSeq(messages, 1, Len(messages) - 1)
          ELSE messages' = Append(messages, agentMessage(r.value, req.selectedLanguage)) /\ UNCHANGED error
  /\ isLoading' = FALSE
  /\ UNCHANGED <<agents, selectedAgent, selectedType, isCreating, draftVars>>
  /\ UNCHANGED <<message, selectedLanguage, codingMode, docVars, listReqs, createReqs, uploadReqs, serverNextId>>
  /\ RenderHome

\* selectedLanguage is the value handleMessageSend closed over.
handleMessageSendDone(i, resp) ==
  /\ i \in DOMAIN queryReqs
  /\ queryReqs' = RemoveAt(queryReqs, i)
  /\ LET req == queryReqs[i]
         r == queryAgent(req.query, resp)
     IN IF r.rejected
          THEN error' = "Failed to send message" /\ UNCHANGED messages
          ELSE messages' = Append(messages, agentMessage(r.value, req.selectedLanguage)) /\ UNCHANGED error
  /\ isLoading' = FALSE
  /\ UNCHANGED <<agents, selectedAgent, selectedType, isCreating, draftVars>>
  /\ UNCHANGED <<message, selectedLanguage, codingMode, docVars, listReqs, createReqs, uploadReqs, serverNextId>>
  /\ RenderHome

\* handleFileUpload after uploadDocument: on success the summary query is
\* issued (its multipart form is kept in the pending request).
handleFileUploadUploaded(i, resp) ==
  /\ i \in DOMAIN uploadReqs
  /\ uploadReqs[i].stage = "upload"
  /\ LET r == uploadDocument(resp)
     IN IF r.rejected
          THEN /\ error' = "Failed to process document"
               /\ isProcessingDocument' = FALSE
               /\ uploadReqs' = RemoveAt(uploadReqs, i)
          ELSE /\ uploadReqs' = [uploadReqs EXCEPT ![i].stage = "summary", ![i].form = queryAgentForm(SummaryPrompt, {})]
               /\ UNCHANGED <<error, isProcessingDocument>>
  /\ UNCHANGED <<agents, selectedAgent, selectedType, isCreating, isLoading, draftVars>>
  /\ UNCHANGED <<chatVars, hasDocument, currentDocument, listReqs, createReqs, queryReqs, serverNextId>>
  /\ RenderHome

\* An upload handler that records the document before the summary query.
handleFileUploadDoneRecordsFirst(i, resp) ==
  /\ i \in DOMAIN uploadReqs
  /\ uploadReqs[i].stage = "summary"
  /\ uploadReqs' = RemoveAt(uploadReqs, i)
  /\ LET r == queryAgent(SummaryPrompt, resp)
     IN IF r.rejected
          THEN error' = "Failed to process document" /\ hasDocument' = TRUE /\ currentDocument' = uploadReqs[i].file /\ UNCHANGED messages
          ELSE /\ hasDocument' = TRUE
               /\ currentDocument' = uploadReqs[i].file
               /\ messages' = <<summaryMessage(r.value)>>
               /\ UNCHANGED error
  /\ isProcessingDocument' = FALSE
  /\ UNCHANGED <<agents, selectedAgent, selectedType, isCreating, isLoading, draftVars>>
  /\ UNCHANGED <<message, selectedLanguage, codingMode, listReqs, createReqs, queryReqs, serverNextId>>
  /\ RenderHome

\* handleFileUpload after the summary query.
handleFileUploadDone(i, resp) ==
  /\ i \in DOMAIN uploadReqs
  /\ uploadReqs[i].stage = "summary"
  /\ uploadReqs' = RemoveAt(uploadReqs, i)
  /\ LET r == queryAgent(SummaryPrompt, resp)
     IN IF r.rejected
          THEN error' = "Failed to process document" /\ UNCHANGED <<hasDocument, currentDocument, messages>>
          ELSE /\ hasDocument' = TRUE
               /\ currentDocument' = uploadReqs[i].file
               /\ messages' = <<summaryMessage(r.value)>>
               /\ UNCHANGED error
  /\ isProcessingDocument' = FALSE
  /\ UNCHANGED <<agents, selectedAgent, selectedType, isCreating, isLoading, draftVars>>
  /\ UNCHANGED <<message, selectedLanguage, codingMode, listReqs, createReqs, queryReqs, serverNextId>>
  /\ RenderHome

----------------------------------------------------------------------------
\* ToolManager, mounted.

UnchangedByToolManager == UNCHANGED <<coreVars, newAgent, chatVars, docVars, listReqs, createReqs, queryReqs, uploadReqs, serverNextId, aloneVars>>

handleToolSelect(tool) ==
  /\ selectedTools' = onToolSelect(selectedTools, tool)
  /\ successMessage' = ToolSelectedMessage
  /\ UNCHANGED <<tmTools, tmIsCreating, creationMode, description, toolName, code, tmError, tmLoading, tmTimer>>
  /\ UNCHANGED <<showToolManager, toolReqs>>
  /\ UnchangedByToolManager
  /\ pendingEffects' = EffectsAfter(pendingEffects)

\* handleCreateTool up to its await; tools and onToolCreate (with the
\* selectedTools of that render) are closed over.
handleCreateTool ==
  /\ tmLoading' = TRUE
  /\ tmError' = ""
  /\ toolReqs' = Append(toolReqs, [op |-> IF creationMode = "code" THEN "createToolFromCode" ELSE "createTool", mounted |-> TRUE, name |-> toolName, description |-> description, tools |-> tmTools, selectedTools |-> selectedTools])
  /\ UNCHANGED <<tmTools, tmIsCreating, creationMode, description, toolName, code, successMessage, tmTimer>>
  /\ UNCHANGED <<selectedTools, showToolManager>>
  /\ UnchangedByToolManager
  /\ pendingEffects' = EffectsAfter(pendingEffects)

\* Local form state of ToolManager: the Create Tool / Cancel toggle, the
\* mode buttons and the three inputs.
setToolForm(creating, mode, desc, name, src) ==
  /\ tmIsCreating' = creating
  /\ creationMode' = mode
  /\ description' = desc
  /\ toolName' = name
  /\ code' = src
  /\ UNCHANGED <<tmTools, tmError, tmLoading, successMessage, tmTimer>>
  /\ UNCHANGED <<selectedTools, showToolManager, toolReqs>>
  /\ UnchangedByToolManager
  /\ pendingEffects' = EffectsAfter(pendingEffects)

\* The 2 s timer of the success-message effect.
successTimer ==
  /\ tmTimer
  /\ showToolManager' = FALSE
  /\ TMReset
  /\ toolReqs' = Orphaned(toolReqs)
  /\ UNCHANGED selectedTools
  /\ UnchangedByToolManager
  /\ pendingEffects' = EffectsAfter(pendingEffects)

\* Continuation of loadTools.
loadToolsDone(i, resp) ==
  /\ i \in DOMAIN toolReqs
  /\ toolReqs[i].op = "listTools"
  /\ toolReqs' = RemoveAt(toolReqs, i)
  /\ LET r == listTools(resp)
     IN IF ~toolReqs[i].mounted
          THEN UNCHANGED <<tmTools, tmError, tmLoading>>
          ELSE /\ IF r.rejected
                    THEN tmError' = "Failed to load tools" /\ UNCHANGED tmTools
                    ELSE tmTools' = r.value /\ UNCHANGED tmError
               /\ tmLoading' = FALSE
  /\ UNCHANGED <<tmIsCreating, creationMode, description, toolName, code, successMessage, tmTimer>>
  /\ UNCHANGED <<selectedTools, showToolManager>>
  /\ UnchangedByToolManager
  /\ pendingEffects' = EffectsAfter(pendingEffects)

\* Continuation of handleCreateTool.  The setters of an unmounted
\* ToolManager do nothing; onToolCreate reaches Home all the same.
handleCreateToolDone(i, resp) ==
  /\ i \in DOMAIN toolReqs
  /\ toolReqs[i].op # "listTools"
  /\ toolReqs' = RemoveAt(toolReqs, i)
  /\ LET req == toolReqs[i]
         r == IF req.op = "createToolFromCode" THEN createToolFromCode(resp) ELSE createTool(resp)
     IN IF r.rejected
          THEN /\ tmError' = IF req.mounted THEN "Failed to create tool" ELSE tmError
               /\ tmLoading' = IF req.mounted THEN FALSE ELSE tmLoading
               /\ UNCHANGED <<selectedTools, tmTools, tmIsCreating, description, toolName, code, successMessage>>
          ELSE /\ selectedTools' = onToolCreate(req.selectedTools, r.value)
               /\ IF req.mounted
                    THEN /\ tmTools' = Append(req.tools, r.value)
                         /\ tmIsCreating' = FALSE
                         /\ description' = ""
                         /\ toolName' = ""
                         /\ code' = DefaultCode
                         /\ successMessage' = ToolCreatedMessage
                         /\ tmLoading' = FALSE
                         /\ UNCHANGED tmError
                    ELSE UNCHANGED <<tmTools, tmIsCreating, description, toolName, code, successMessage, tmLoading, tmError>>
  /\ UNCHANGED <<creationMode, tmTimer, showToolManager>>
  /\ UnchangedByToolManager
  /\ pendingEffects' = EffectsAfter(pendingEffects)

----------------------------------------------------------------------------
\* User events: the element is rendered and not disabled.

FormShown == View = "AgentCreationForm" /\ ~ShowsToolManager

ChatShown == View = "ChatInterface"

\* Sidebar "Create New Agent" and WelcomeScreen "Create Your First Agent".
ClickCreateNew == Ready /\ ~isLoading /\ handleStartCreating

ClickAgentType(t) == Ready /\ onTypeSelect(t)

ClickAgent(i) == Ready /\ i \in DOMAIN agents /\ onAgentSelect(agents[i])

ClickDismissError == Ready /\ error # Null /\ dismissError

TypeAgentName(n) == Ready /\ FormShown /\ ~isLoading /\ onAgentChange([newAgent EXCEPT !.name = n])

\* The select fires onChange for another type only.
SelectDraftType(t) == Ready /\ FormShown /\ ~isLoading /\ t # newAgent.type /\ handleTypeChange(t)

EditPromptTemplate(p) == Ready /\ FormShown /\ ~isLoading /\ newAgent.type = "conversational" /\ onAgentChange([newAgent EXCEPT !.configuration = Spread(newAgent.configuration, {<<"prompt_template", p>>})])

ClickManageTools == Ready /\ FormShown /\ newAgent.type = "tool_calling" /\ onShowToolManagerChange(TRUE)

ClickRemoveTool(i) == Ready /\ FormShown /\ newAgent.type = "tool_calling" /\ i \in DOMAIN selectedTools /\ removeSelectedTool(selectedTools[i].name)

ClickCancel == Ready /\ FormShown /\ ~isLoading /\ onCancel

ClickCreateAgent == Ready /\ FormShown /\ submitEnabled /\ handleCreateAgent

\* DocumentUpload's input, or ChatInterface's attach control of a rag agent.
ChooseFile(f) == Ready /\ ~isProcessingDocument /\ (View = "DocumentUpload" \/ (ChatShown /\ selectedAgent.type = "rag")) /\ handleFileUpload(f)

\* A chat input that is never disabled.
inputDisabledNever == FALSE

\* disabled={isLoading || isProcessingDocument}, on the message input and
\* on the Send button alike.
inputDisabled == isLoading \/ isProcessingDocument

TypeMessage(m) == Ready /\ ChatShown /\ ~inputDisabled /\ onMessageChange(m)

\* Enter in the input, or the Send button.
ClickSend == Ready /\ ChatShown /\ ~inputDisabled /\ handleMessageSend

SelectLanguage(l) == Ready /\ ChatShown /\ selectedAgent.type = "coding" /\ onLanguageChange(l)

ClickCodingMode(m) == Ready /\ ChatShown /\ selectedAgent.type = "coding" /\ onCodingModeChange(m)

\* ToolManager's elements.
ClickBackToForm == Ready /\ ShowsToolManager /\ onShowToolManagerChange(FALSE)

ClickToggleCreateTool == Ready /\ ShowsToolManager /\ setToolForm(~tmIsCreating, creationMode, description, toolName, code)

ClickCreationMode(m) == Ready /\ ShowsToolManager /\ tmIsCreating /\ setToolForm(tmIsCreating, m, description, toolName, code)

TypeDescription(d) == Ready /\ ShowsToolManager /\ tmIsCreating /\ creationMode = "description" /\ setToolForm(tmIsCreating, creationMode, d, toolName, code)

TypeToolName(n) == Ready /\ ShowsToolManager /\ tmIsCreating /\ creationMode = "code" /\ setToolForm(tmIsCreating, creationMode, description, n, code)

EditCode(c) == Ready /\ ShowsToolManager /\ tmIsCreating /\ creationMode = "code" /\ setToolForm(tmIsCreating, creationMode, description, toolName, c)

ClickCreateTool == Ready /\ ShowsToolManager /\ tmIsCreating /\ createToolEnabled /\ handleCreateTool

ClickTool(i) == Ready /\ ShowsToolManager /\ ~tmIsCreating /\ i \in DOMAIN tmTools /\ handleToolSelect(tmTools[i])

----------------------------------------------------------------------------
\* The remote service answers.

ListAgentsAnswered == \E i \in DOMAIN listReqs : \E resp \in {OkResponse(l) : l \in ServerAgentLists} \cup {ErrorResponse} : loadAgentsDone(i, resp)

CreateAgentAnswered == \E i \in DOMAIN createReqs : \E resp \in {OkResponse(ServerAgent(serverNextId, Get(createReqs[i].body, "type"), Get(createReqs[i].body, "name"), Get(createReqs[i].body, "configuration"))), ErrorResponse} : handleCreateAgentDone(i, resp)

QueryAnswered == \E i \in DOMAIN queryReqs : \E resp \in {OkResponse(QueryPayload(queryReqs[i].text)), ErrorResponse} : handleMessageSendDone(i, resp)

UploadAnswered == \E i \in DOMAIN uploadReqs : \E resp \in {OkResponse([message |-> "uploaded"]), ErrorResponse} : handleFileUploadUploaded(i, resp)

SummaryAnswered == \E i \in DOMAIN uploadReqs : \E resp \in {OkResponse(QueryPayload(<<"summary of ", uploadReqs[i].file>>)), ErrorResponse} : handleFileUploadDone(i, resp)

ListToolsAnswered == \E i \in DOMAIN toolReqs : \E resp \in {OkResponse(ServerTools), ErrorResponse} : loadToolsDone(i, resp)

CreateToolAnswered == \E i \in DOMAIN toolReqs : \E resp \in {OkResponse(CreatedTool(toolReqs[i])), ErrorResponse} : handleCreateToolDone(i, resp)

----------------------------------------------------------------------------
\* The page, chat side: agents are loaded, created from the form with a
\* name and a type, selected, given documents and queried.

\* handleMessageSend adds one message and its continuation at most one more.
CanSend == Len(messages) + Len(queryReqs) + 2 <= MaxMsgs

CanCreate == Len(agents) + Len(createReqs) < MaxAgents

Effects == FlushEffects

ChatCreationEvent ==
  \/ ClickCreateNew
  \/ TypeAgentName(<<"bot">>)
  \/ SelectDraftType("rag")
  \/ ClickCancel
  \/ CanCreate /\ ClickCreateAgent

ChatEvent ==
  \/ \E i \in DOMAIN agents : ClickAgent(i)
  \/ ClickDismissError
  \/ \E f \in Files : ChooseFile(f)
  \/ TypeMessage(<<"hi">>)
  \/ CanSend /\ ClickSend
  \/ SelectLanguage("rust")
  \/ ClickCodingMode("troubleshoot")

ChatAnswered ==
  \/ ListAgentsAnswered
  \/ CreateAgentAnswered
  \/ QueryAnswered
  \/ UploadAnswered
  \/ SummaryAnswered

Next == Effects \/ ChatCreationEvent \/ ChatEvent \/ ChatAnswered

Spec == Init /\ [][Next]_vars

----------------------------------------------------------------------------
\* Selection reset.

\* The step that runs the selection effect for a selected agent.
SelectionEffectRuns == "selectedAgent" \in pendingEffects /\ "selectedAgent" \notin pendingEffects' /\ selectedAgent # NullAgent

\* C1: whenever the selected agent has changed to another agent, the step that
\* runs the selection effect leaves messages empty, hasDocument false and
\* currentDocument null, whatever they were, and leaves codingMode 'generate'
\* when the agent now selected is a coding agent.
C1_SelectionResets == [][SelectionEffectRuns => (messages' = <<>> /\ hasDocument' = FALSE /\ currentDocument' = Null /\ (selectedAgent'.type = "coding" => codingMode' = "generate"))]_vars

\* A coding agent has just been selected while the chat of a rag agent with
\* its document and a left-over coding mode is still in the state.
C1_Witness == "selectedAgent" \in pendingEffects /\ selectedAgent.type = "coding" /\ messages # <<>> /\ hasDocument /\ currentDocument # Null /\ codingMode = "troubleshoot"

----------------------------------------------------------------------------
\* Document gate of rag agents.

\* The step gives a selected rag agent its document: the view of a rag agent
\* is the chat exactly when hasDocument is true and the form is closed.
RagDocumentArrives == ~hasDocument /\ hasDocument' /\ selectedAgent'.type = "rag" /\ pendingEffects' = {}

\* The step finishes an upload that was sent to agent id.
UploadCompletesFor(id) == \E i \in DOMAIN uploadReqs : uploadReqs[i].agentId = id /\ uploadReqs' = RemoveAt(uploadReqs, i)

\* C3: the chat of a selected rag agent becomes available only by the
\* completion of a document upload sent to that same agent while it is
\* selected, whatever the order of answers and agent switches.
C3_ChatOnlyAfterOwnUpload == [][RagDocumentArrives => UploadCompletesFor(selectedAgent'.id)]_vars

----------------------------------------------------------------------------
\* Controller states and the view.

Idle == selectedAgent = NullAgent

Creating == isCreating

AwaitingDocument == selectedAgent.type = "rag" /\ ~hasDocument

Chatting == selectedAgent # NullAgent /\ (selectedAgent.type # "rag" \/ hasDocument)

StatesHolding == {s \in {"Idle", "Creating", "AwaitingDocument", "Chatting"} : (s = "Idle" /\ Idle) \/ (s = "Creating" /\ Creating) \/ (s = "AwaitingDocument" /\ AwaitingDocument) \/ (s = "Chatting" /\ Chatting)}

ViewBelongingTo(s) == CASE s = "Idle" -> "WelcomeScreen" [] s = "Creating" -> "AgentCreationForm" [] s = "AwaitingDocument" -> "DocumentUpload" [] s = "Chatting" -> "ChatInterface"

\* C10 as stated: exactly one of Idle, Creating, AwaitingDocument and Chatting
\* holds in every reachable state and the view is the one of that state.
C10_FourStatesExclusive == Cardinality(StatesHolding) = 1 /\ \A s \in StatesHolding : View = ViewBelongingTo(s)

\* C10, amended: the view is the creation form exactly when isCreating is
\* true, and otherwise exactly one of Idle, AwaitingDocument and Chatting
\* holds and the view is the one of that state.
C10_CreatingTakesPrecedence == (View = "AgentCreationForm" <=> isCreating) /\ (~isCreating => (Cardinality(StatesHolding) = 1 /\ \A s \in StatesHolding : View = ViewBelongingTo(s)))

\* The form is open while a rag agent without a document is selected.
C10_Witness == isCreating /\ AwaitingDocument /\ View = "AgentCreationForm"

----------------------------------------------------------------------------
\* The page, creation side: the form, the sidebar's type buttons and
\* ToolManager's tool list.

CanCreateInForm == Len(agents) + Len(createReqs) < MaxFormAgents

\* Each mount of ToolManager sends a listTools request.
CanAskTools == Len(toolReqs) < MaxToolReqs

FormEvent ==
  \/ CanAskTools /\ ClickCreateNew
  \/ \E t \in AgentType : CanAskTools /\ ClickAgentType(t)
  \/ ClickDismissError
  \/ \E n \in NameInputs : TypeAgentName(n)
  \/ \E t \in AgentType : CanAskTools /\ SelectDraftType(t)
  \/ \E p \in PromptInputs : EditPromptTemplate(p)
  \/ CanAskTools /\ ClickManageTools
  \/ \E i \in DOMAIN selectedTools : ClickRemoveTool(i)
  \/ ClickCancel
  \/ CanCreateInForm /\ ClickCreateAgent

ToolPickEvent ==
  \/ ClickBackToForm
  \/ \E i \in DOMAIN tmTools : ClickTool(i)
  \/ successTimer

FormAnswered ==
  \/ ListAgentsAnswered
  \/ CreateAgentAnswered
  \/ ListToolsAnswered

NextForm == Effects \/ FormEvent \/ ToolPickEvent \/ FormAnswered

SpecForm == Init /\ [][NextForm]_vars

\* The form's submit event reaching handleCreateAgent whatever the state of
\* the Create Agent button.
SubmitForm == Ready /\ FormShown /\ handleCreateAgent /\ Len(agents) + Len(createReqs') <= MaxFormAgents

HandlerEvent ==
  \/ CanAskTools /\ ClickCreateNew
  \/ TypeAgentName(<<"bot">>)
  \/ \E t \in {"tool_calling", "rag"} : CanAskTools /\ SelectDraftType(t)
  \/ CanAskTools /\ ClickManageTools
  \/ \E i \in DOMAIN selectedTools : ClickRemoveTool(i)
  \/ SubmitForm

NextHandlers == Effects \/ HandlerEvent \/ ToolPickEvent \/ FormAnswered

SpecHandlers == Init /\ [][NextHandlers]_vars

----------------------------------------------------------------------------
\* Agent creation.

\* C2: handleCreateAgent run while the draft's type is tool_calling and
\* selectedTools is empty sends no createAgent request, sets the error to
\* 'Please select at least one tool for the Tool Agent', ends with isLoading
\* false and leaves agents, selectedAgent, isCreating and the draft unchanged.
C2_NoToolsNoRequest == [][(newAgent.type = "tool_calling" /\ selectedTools = <<>> /\ handleCreateAgent) => (createReqs' = createReqs /\ error' = "Please select at least one tool for the Tool Agent" /\ isLoading' = FALSE /\ agents' = agents /\ selectedAgent' = selectedAgent /\ isCreating' = isCreating /\ newAgent' = newAgent)]_vars

\* The form of a named tool_calling draft without tools shows the tool error
\* and nothing was sent.
C2_Witness == isCreating /\ newAgent.type = "tool_calling" /\ newAgent.name # <<>> /\ selectedTools = <<>> /\ error = ToolRequiredMessage /\ ~isLoading /\ createReqs = <<>>

\* The step sends a createAgent request.
SendsCreateAgent == Len(createReqs') = Len(createReqs) + 1

\* The configuration of the request just sent.
SentConfiguration == Get(createReqs'[Len(createReqs')].body, "configuration")

\* The draft carries a prompt template the user typed.
PromptEdited == HasKey(newAgent.configuration, "prompt_template") /\ Get(newAgent.configuration, "prompt_template") # DefaultPromptTemplate

\* C5: a createAgent request sent for a conversational draft whose prompt
\* template was not edited carries the default prompt template in its
\* configuration, however the form was reached.
C5_DefaultPromptSent == [][(SendsCreateAgent /\ newAgent.type = "conversational" /\ ~PromptEdited) => (HasKey(SentConfiguration, "prompt_template") /\ Get(SentConfiguration, "prompt_template") = <<"You are a helpful AI assistant. Please respond to the following message:", "\n", "\n", "{input}">>)]_vars

\* part occurs in text as a run of consecutive elements.
OccursIn(part, text) == \E k \in 0..(Len(text) - Len(part)) : SubSeq(text, k + 1, k + Len(part)) = part

\* C6: every createAgent request sent for a tool_calling draft carries in its
\* configuration tools = the names of selectedTools in selection order, at
\* least one, and a prompt_template that has a line '- <name>: <description>'
\* for each selected tool and ends with '{input}'; a request for a draft of
\* another type carries the draft's configuration as it is, without tools.
C6_ToolsInRequest == [][SendsCreateAgent => IF newAgent.type = "tool_calling" THEN (Len(selectedTools) >= 1 /\ HasKey(SentConfiguration, "tools") /\ Get(SentConfiguration, "tools") = [i \in DOMAIN selectedTools |-> selectedTools[i].name] /\ HasKey(SentConfiguration, "prompt_template") /\ (\A i \in DOMAIN selectedTools : OccursIn(<<"- ", selectedTools[i].name, ": ", selectedTools[i].description>>, Get(SentConfiguration, "prompt_template"))) /\ Get(SentConfiguration, "prompt_template")[Len(Get(SentConfiguration, "prompt_template"))] = "{input}") ELSE (SentConfiguration = newAgent.configuration /\ ~HasKey(SentConfiguration, "tools"))]_vars

\* A request for a tool_calling agent with two tools is in flight.
C6_Witness == \E i \in DOMAIN createReqs : Get(createReqs[i].body, "type") = "tool_calling" /\ Len(Get(Get(createReqs[i].body, "configuration"), "tools")) = 2

----------------------------------------------------------------------------
\* The page, one long conversation.

CanSendLong == Len(messages) + Len(queryReqs) + 2 <= MaxHistory

HistoryEvent ==
  \/ \E i \in DOMAIN agents : ClickAgent(i)
  \/ \E m \in MessageInputs : TypeMessage(m)
  \/ CanSendLong /\ ClickSend

NextHistory == Effects \/ HistoryEvent \/ ListAgentsAnswered \/ QueryAnswered

SpecHistory == Init /\ [][NextHistory]_vars

\* 'User: <content>' or 'Assistant: <content>'
RenderedByRole(msg) == (IF msg.role = "user" THEN <<"User", ": ">> ELSE <<"Assistant", ": ">>) \o msg.content

\* Messages from..to of M, rendered, one per line.
RECURSIVE RenderedLines(_, _, _)
RenderedLines(M, from, to) == IF from > to THEN <<>> ELSE RenderedByRole(M[from]) \o (IF from < to THEN <<"\n">> ELSE <<>>) \o RenderedLines(M, from + 1, to)

\* H: the last min(5, |M|) messages of M.
LastMessagesRendered(M) == RenderedLines(M, Len(M) - (IF Len(M) < 5 THEN Len(M) ELSE 5) + 1, Len(M))

\* The step sends a query.
SendsQuery == Len(queryReqs') = Len(queryReqs) + 1

\* C4: the query text handleMessageSend passes to queryAgent for input m and
\* prior messages M is m when M is empty and otherwise 'Chat history:\n' + H +
\* '\n\nNew message:\n' + m, H being the last min(5, |M|) messages of M in
\* order, rendered by role and joined by newlines, without the user message
\* the handler appends.
C4_QueryCarriesLastFive == [][SendsQuery => queryReqs'[Len(queryReqs')].query = (IF messages = <<>> THEN message ELSE <<"Chat history:", "\n">> \o LastMessagesRendered(messages) \o <<"\n", "\n", "New message:", "\n">> \o message)]_vars

\* A query sent after at least six earlier messages is in flight.
C4_Witness == queryReqs # <<>> /\ Len(messages) >= 7

----------------------------------------------------------------------------
\* The API client, one call at a time: an operation is invoked with an
\* argument, sends its request (createAgent may reject before that), gets an
\* HTTP response and resolves or rejects.

ApiOps == {"listTools", "getTool", "createTool", "createToolFromCode", "deleteTool", "executeToolDirectly", "listAgents", "createAgent", "uploadDocument", "queryAgent", "deleteAgent", "interactWithAgent"}

\* Partial<Agent> arguments of createAgent: each field given or not.
PartialAgents == {n \cup t \cup st \cup c : n \in {{}, {<<"name", <<>>>>}, {<<"name", <<"bot">>>>}}, t \in {{}, {<<"type", "rag">>}, {<<"type", "tool_calling">>}}, st \in {{}, {<<"status", "inactive">>}}, c \in {{}, {<<"configuration", {}>>}, {<<"configuration", {<<"prompt_template", PromptInputs>>}>>}}}

\* What each operation is called with.
ApiArgs(op) == CASE op = "createAgent" -> PartialAgents [] op \in {"getTool", "deleteTool", "executeToolDirectly"} -> {[name |-> "add"]} [] op = "createTool" -> {[description |-> "look things up", created_by |-> "user"]} [] op = "createToolFromCode" -> {[name |-> "add", code |-> DefaultCode, created_by |-> "user"]} [] op \in {"uploadDocument", "deleteAgent"} -> {[agentId |-> 1]} [] op = "queryAgent" -> {[agentId |-> 1, query |-> <<"hi">>, context |-> c] : c \in {{}, {<<"language", "python">>, <<"mode", "generate">>}}} [] op = "interactWithAgent" -> {[agentId |-> 1, message |-> <<"hi">>]} [] OTHER -> {[none |-> TRUE]}

\* The request an operation sends: fetch's method, path (after API_BASE_URL) and body.
apiRequest(op, arg) == CASE op = "listTools" -> [method |-> "GET", path |-> <<"/tools">>, body |-> {}] [] op = "getTool" -> [method |-> "GET", path |-> <<"/tools/", arg.name>>, body |-> {}] [] op = "createTool" -> [method |-> "POST", path |-> <<"/tools">>, body |-> arg] [] op = "createToolFromCode" -> [method |-> "POST", path |-> <<"/tools/code">>, body |-> arg] [] op = "deleteTool" -> [method |-> "DELETE", path |-> <<"/tools/", arg.name>>, body |-> {}] [] op = "executeToolDirectly" -> [method |-> "POST", path |-> <<"/tools/", arg.name, "/execute">>, body |-> {<<"parameters", {}>>}] [] op = "listAgents" -> [method |-> "GET", path |-> <<"/agents/">>, body |-> {}] [] op = "createAgent" -> [method |-> "POST", path |-> <<"/agents/">>, body |-> createAgentBody(arg)] [] op = "uploadDocument" -> [method |-> "POST", path |-> <<"/agents/", arg.agentId, "/upload">>, body |-> {<<"file", "report.pdf">>}] [] op = "queryAgent" -> [method |-> "POST", path |-> <<"/agents/", arg.agentId, "/query">>, body |-> queryAgentForm(arg.query, arg.context)] [] op = "deleteAgent" -> [method |-> "DELETE", path |-> <<"/agents/", arg.agentId>>, body |-> {}] [] op = "interactWithAgent" -> [method |-> "POST", path |-> <<"/agents/", arg.agentId, "/interact">>, body |-> {<<"message", arg.message>>}]

\* How an operation settles on a response.
apiOutcome(op, arg, resp) == CASE op = "listTools" -> listTools(resp) [] op = "getTool" -> getTool(resp) [] op = "createTool" -> createTool(resp) [] op = "createToolFromCode" -> createToolFromCode(resp) [] op = "deleteTool" -> deleteTool(resp) [] op = "executeToolDirectly" -> executeToolDirectly(resp) [] op = "listAgents" -> listAgents(resp) [] op = "createAgent" -> createAgent(resp) [] op = "uploadDocument" -> uploadDocument(resp) [] op = "queryAgent" -> queryAgent(arg.query, resp) [] op = "deleteAgent" -> deleteAgent(resp) [] op = "interactWithAgent" -> interactWithAgent(arg.message, resp)

\* Tools as the service may send them: sample names, other names, flagged or not.
ServerToolSet == {[name |-> n, description |-> "a tool", created_by |-> "user", is_sample |-> f] : n \in {"multiply", "add", "Add", "search"}, f \in {"true", "false", Undefined}}

\* GET /tools payloads: lists of up to MaxListedTools tools.
ServerToolLists == UNION {[1..n -> ServerToolSet] : n \in 0..MaxListedTools}

\* The 2xx payloads of an operation.
ApiPayloads(op, arg) == CASE op = "listTools" -> ServerToolLists [] op \in {"getTool", "createTool", "createToolFromCode"} -> ServerToolSet [] op = "listAgents" -> ServerAgentLists [] op = "createAgent" -> {ServerAgent(FirstCreatedId, Get(arg, "type"), Get(arg, "name"), IF HasKey(arg, "configuration") THEN Get(arg, "configuration") ELSE {})} [] op \in {"queryAgent", "interactWithAgent"} -> {QueryPayload(<<"hi">>)} [] OTHER -> {[message |-> "done"]}

\* The responses an operation may get: 2xx or not, JSON body or not, and
\* for an error body a detail, an empty detail or none.
ApiResponses(op, arg) == {OkResponse(d) : d \in ApiPayloads(op, arg)} \cup {[ok |-> o, parseable |-> FALSE, detail |-> Undefined, data |-> Null] : o \in BOOLEAN} \cup {[ok |-> FALSE, parseable |-> TRUE, detail |-> d, data |-> Null] : d \in {Undefined, "", "Not found"}}

UnchangedByApi == UNCHANGED <<homeVars, tmVars, pendingEffects, netVars, registry, typeLookup, kazuriVars>>

apiInvoke(op, arg) ==
  /\ apiCall.phase = "idle"
  /\ apiCall' = IF op = "createAgent" /\ createAgentMissing(arg)
                  THEN [phase |-> "done", op |-> op, arg |-> arg, sent |-> <<>>, resp |-> Null, outcome |-> Reject("Agent name and type are required")]
                  ELSE [phase |-> "pending", op |-> op, arg |-> arg, sent |-> <<apiRequest(op, arg)>>]
  /\ UnchangedByApi

apiRespond(resp) ==
  /\ apiCall.phase = "pending"
  /\ apiCall' = [phase |-> "done", op |-> apiCall.op, arg |-> apiCall.arg, sent |-> apiCall.sent, resp |-> resp, outcome |-> apiOutcome(apiCall.op, apiCall.arg, resp)]
  /\ UnchangedByApi

apiReturn ==
  /\ apiCall.phase = "done"
  /\ apiCall' = ApiIdle
  /\ UnchangedByApi

ApiInvoked == \E op \in ApiOps : \E arg \in ApiArgs(op) : apiInvoke(op, arg)

ApiAnswered == apiCall.phase = "pending" /\ \E resp \in ApiResponses(apiCall.op, apiCall.arg) : apiRespond(resp)

NextApi == ApiInvoked \/ ApiAnswered \/ apiReturn

SpecApi == Init /\ [][NextApi]_vars

----------------------------------------------------------------------------
\* API client contracts.

\* The call has settled on a 2xx JSON response.
ApiSucceeded(op) == apiCall.phase = "done" /\ apiCall.op = op /\ apiCall.sent # <<>> /\ apiCall.resp.ok /\ apiCall.resp.parseable

\* The tool as the server sent it but for its is_sample flag.
SameButFlag(returned, sent, flag) == returned = [sent EXCEPT !.is_sample = flag]

\* 'true' for a tool the server flagged or that is named multiply or add.
FlagClaimed(tool) == IF tool.is_sample = "true" \/ tool.name = "multiply" \/ tool.name = "add" THEN "true" ELSE "false"

\* C7: listTools and getTool return is_sample true exactly for the tools the
\* server flagged or that are named 'multiply' or 'add' and false for the
\* others, keeping the other fields and the list order; createTool and
\* createToolFromCode return is_sample false whatever the server sent.
C7_SampleFlagNormalised == /\ ApiSucceeded("listTools") => (~apiCall.outcome.rejected /\ Len(apiCall.outcome.value) = Len(apiCall.resp.data) /\ \A i \in DOMAIN apiCall.resp.data : SameButFlag(apiCall.outcome.value[i], apiCall.resp.data[i], FlagClaimed(apiCall.resp.data[i])))
                           /\ ApiSucceeded("getTool") => (~apiCall.outcome.rejected /\ SameButFlag(apiCall.outcome.value, apiCall.resp.data, FlagClaimed(apiCall.resp.data)))
                           /\ ApiSucceeded("createTool") => (~apiCall.outcome.rejected /\ apiCall.outcome.value.is_sample = "false")
                           /\ ApiSucceeded("createToolFromCode") => (~apiCall.outcome.rejected /\ apiCall.outcome.value.is_sample = "false")

\* listTools has returned a list with an unflagged 'add' and a flagged tool
\* of another name.
C7_Witness == ApiSucceeded("listTools") /\ \E i, j \in DOMAIN apiCall.resp.data : apiCall.resp.data[i].name = "add" /\ apiCall.resp.data[i].is_sample = Undefined /\ apiCall.resp.data[j].name = "search" /\ apiCall.resp.data[j].is_sample = "true"

\* createAgent has been called.
CreateAgentCalled == apiCall.phase # "idle" /\ apiCall.op = "createAgent"

\* C8: createAgent called without a name, with an empty name or without a
\* type rejects with 'Agent name and type are required' and sends nothing;
\* otherwise it sends exactly one POST whose body has the given status, or
\* 'active' when none is given, and the given configuration, or the empty
\* mapping when none is given, and the agent it returns has a lower-case type.
C8_CreateAgentContract == CreateAgentCalled => IF ~HasKey(apiCall.arg, "name") \/ Get(apiCall.arg, "name") = <<>> \/ ~HasKey(apiCall.arg, "type") THEN (apiCall.phase = "done" /\ apiCall.sent = <<>> /\ apiCall.outcome.rejected /\ apiCall.outcome.message = "Agent name and type are required") ELSE (Len(apiCall.sent) = 1 /\ apiCall.sent[1].method = "POST" /\ HasKey(apiCall.sent[1].body, "status") /\ Get(apiCall.sent[1].body, "status") = (IF HasKey(apiCall.arg, "status") THEN Get(apiCall.arg, "status") ELSE "active") /\ HasKey(apiCall.sent[1].body, "configuration") /\ Get(apiCall.sent[1].body, "configuration") = (IF HasKey(apiCall.arg, "configuration") THEN Get(apiCall.arg, "configuration") ELSE {}) /\ (ApiSucceeded("createAgent") => (~apiCall.outcome.rejected /\ apiCall.outcome.value.type \in {"conversational", "rag", "tool_calling", "coding"} /\ ServerSpelling(apiCall.outcome.value.type) = apiCall.resp.data.type)))

\* createAgent called with a name and a type alone has returned its agent.
C8_Witness == ApiSucceeded("createAgent") /\ ~HasKey(apiCall.arg, "status") /\ ~HasKey(apiCall.arg, "configuration") /\ ~apiCall.outcome.rejected

\* The generic message of each operation.
GenericFailure(op) == CASE op = "listTools" -> "Failed to list tools" [] op = "getTool" -> "Failed to get tool" [] op = "createTool" -> "Failed to create tool" [] op = "createToolFromCode" -> "Failed to create tool from code" [] op = "deleteTool" -> "Failed to delete tool" [] op = "executeToolDirectly" -> "Failed to execute tool" [] op = "listAgents" -> "Failed to list agents" [] op = "createAgent" -> "Failed to create agent" [] op = "uploadDocument" -> "Failed to upload document" [] op = "queryAgent" -> "Failed to query agent" [] op = "deleteAgent" -> "Failed to delete agent" [] op = "interactWithAgent" -> "Failed to interact with agent"

\* C9: an operation that got a non-2xx response rejects with the detail of
\* the body when the body carries one and with the operation's generic
\* 'Failed to ...' message otherwise, a body that is not JSON included.
C9_FailureMessage == (apiCall.phase = "done" /\ apiCall.sent # <<>> /\ ~apiCall.resp.ok) => (apiCall.outcome.rejected /\ apiCall.outcome.message = (IF apiCall.resp.parseable /\ apiCall.resp.detail \notin {Undefined, ""} THEN apiCall.resp.detail ELSE GenericFailure(apiCall.op)))

----------------------------------------------------------------------------
\* Failed send.

\* The step is the rejection of a pending query of handleMessageSend.
SendRejected == \E i \in DOMAIN queryReqs : handleMessageSendDone(i, ErrorResponse)

\* The page is as the send left it: its user message is the last one and
\* the input is still empty.
AsSendLeftIt == \E i \in DOMAIN queryReqs : messages # <<>> /\ messages[Len(messages)].role = "user" /\ messages[Len(messages)].content = queryReqs[i].text /\ message = <<>>

\* C11: when queryAgent rejects during handleMessageSend with the page as
\* the send left it, the message list stays the prior list with the user's
\* message appended (no rollback, no assistant message), the input stays
\* empty, the error is 'Failed to send message', isLoading is false and no
\* request is issued in place of the failed one.
C11_FailedSendKeepsMessage == [][(AsSendLeftIt /\ SendRejected) => (messages' = messages /\ messages'[Len(messages')].role = "user" /\ message' = <<>> /\ error' = "Failed to send message" /\ isLoading' = FALSE /\ Len(queryReqs') = Len(queryReqs) - 1 /\ UNCHANGED <<listReqs, createReqs, uploadReqs, toolReqs>>)]_vars

\* A send has failed: the user's message is still the last one, nothing is
\* in flight and the banner shows the send error.
C11_Witness == messages # <<>> /\ messages[Len(messages)].role = "user" /\ message = <<>> /\ error = "Failed to send message" /\ ~isLoading /\ queryReqs = <<>>

----------------------------------------------------------------------------
\* Document upload.

\* The step starts an upload.
UploadStarts == Len(uploadReqs') = Len(uploadReqs) + 1

\* The step sends the summary query of pending upload i.
SummarySent(i) == i \in DOMAIN uploadReqs' /\ uploadReqs[i].stage = "upload" /\ uploadReqs'[i].stage = "summary"

\* The step is the success of the summary query of pending upload i.
SummarySucceeds(i) == handleFileUploadDone(i, OkResponse(QueryPayload(<<"summary of ", uploadReqs[i].file>>)))

\* The step ends an upload, by success or by failure.
UploadEnds == Len(uploadReqs') = Len(uploadReqs) - 1

\* C12: handleFileUpload sets isProcessingDocument and sends the upload
\* alone; the summary query is sent only by the success of the upload and
\* carries the prompt 'Please provide a brief summary of this document.';
\* when the summary succeeds the message list is exactly one assistant
\* message holding it, hasDocument is true and currentDocument is the file
\* name; when the operation ends, by success or by failure,
\* isProcessingDocument is false.
C12_UploadThenSummary == [][/\ UploadStarts => (isProcessingDocument' /\ uploadReqs'[Len(uploadReqs')].stage = "upload" /\ queryReqs' = queryReqs)
                            /\ \A i \in DOMAIN uploadReqs : SummarySent(i) => (handleFileUploadUploaded(i, OkResponse([message |-> "uploaded"])) /\ Get(uploadReqs'[i].form, "query") = <<"Please provide a brief summary of this document.">> /\ isProcessingDocument')
                            /\ \A i \in DOMAIN uploadReqs : SummarySucceeds(i) => (Len(messages') = 1 /\ messages'[1].role = "assistant" /\ messages'[1].content = <<"re:", "summary of ", uploadReqs[i].file>> /\ hasDocument' /\ currentDocument' = uploadReqs[i].file)
                            /\ UploadEnds => ~isProcessingDocument']_vars

\* An upload has gone through: one assistant message, the document flag and
\* name set, nothing processing.
C12_Witness == hasDocument /\ currentDocument \in Files /\ Len(messages) = 1 /\ messages[1].role = "assistant" /\ ~isProcessingDocument /\ uploadReqs = <<>>

----------------------------------------------------------------------------
\* Successful creation.

\* The step is createAgent resolving inside handleCreateAgent.
CreateAgentResolves == Len(createReqs') = Len(createReqs) - 1 /\ selectedAgent' # selectedAgent

\* C13: when createAgent resolves inside handleCreateAgent the returned agent
\* is appended last to agents, the entries before it unchanged and in order,
\* it becomes the selected agent, isCreating becomes false, the draft is
\* reset to an empty name, the sidebar's current type and an empty
\* configuration, selectedTools becomes [] and showToolManager false.
C13_CreatedAgentAppended == [][CreateAgentResolves => (agents' = Append(agents, selectedAgent') /\ selectedAgent'.type \in AgentType /\ isCreating' = FALSE /\ newAgent' = [name |-> <<>>, type |-> selectedType', configuration |-> {}] /\ selectedTools' = <<>> /\ showToolManager' = FALSE)]_vars

----------------------------------------------------------------------------
\* Failures of the four asynchronous operations.

\* The listAgents request of loadAgents is rejected.
LoadFails == \E i \in DOMAIN listReqs : loadAgentsDone(i, ErrorResponse)

\* The queryAgent request of handleMessageSend is rejected.
SendFails == \E i \in DOMAIN queryReqs : handleMessageSendDone(i, ErrorResponse)

\* Either request of handleFileUpload is rejected.
UploadFails == \E i \in DOMAIN uploadReqs : handleFileUploadUploaded(i, ErrorResponse) \/ handleFileUploadDone(i, ErrorResponse)

\* The createAgent request of handleCreateAgent is rejected.
CreateFails == \E i \in DOMAIN createReqs : handleCreateAgentDone(i, ErrorResponse)

\* C14: a failed loadAgents, message send, document upload or agent creation
\* is caught by its handler, which sets the one error string to the
\* operation's fixed message whatever error was shown before, and clears the
\* flag the operation had set (isLoading, or isProcessingDocument for the
\* upload).
C14_FailuresCaught == [][/\ LoadFails => (error' = "Failed to load agents" /\ isLoading' = FALSE)
                         /\ SendFails => (error' = "Failed to send message" /\ isLoading' = FALSE)
                         /\ UploadFails => (error' = "Failed to process document" /\ isProcessingDocument' = FALSE)
                         /\ CreateFails => (error' = "Failed to create agent" /\ isLoading' = FALSE)]_vars

\* A failed upload's error is still shown while a send is in flight.
C14_Witness == error = "Failed to process document" /\ queryReqs # <<>> /\ isLoading /\ ~isProcessingDocument

----------------------------------------------------------------------------
\* The mount-time loadAgents call.

\* The pending listAgents request of loadAgents is answered.
LoadResolves == \E i \in DOMAIN listReqs : \E resp \in {OkResponse(l) : l \in ServerAgentLists} \cup {ErrorResponse} : loadAgentsDone(i, resp)

\* The answer was a rejection.
LoadRejected == LoadResolves /\ agents' = agents /\ error' = "Failed to load agents"

\* After a rejected load the banner shows, loading is over and the
\* Create New Agent control responds.
AfterRejectedLoad == error' = "Failed to load agents" /\ isLoading' = FALSE /\ (ENABLED ClickCreateNew)'

\* C15: when loadAgents resolves the controller is in Idle if no agents
\* exist and in Chatting if agents exist; when it rejects the banner shows
\* 'Failed to load agents', isLoading is false and creation can be started.
C15_LoadPopulatesIdleOrChatting == [][LoadResolves => IF LoadRejected THEN AfterRejectedLoad ELSE ((agents' = <<>> => Idle') /\ (agents' # <<>> => Chatting'))]_vars

\* C15, as the code has it: when loadAgents resolves the fetched agents are
\* listed but none is selected, so the controller is in Idle and shows the
\* welcome screen whether or not agents exist; Chatting is entered only by a
\* later selection.  The rejection case is as stated.
C15_LoadLeavesIdle == [][LoadResolves => IF LoadRejected THEN AfterRejectedLoad ELSE (Idle' /\ ~Chatting' /\ View' = "WelcomeScreen" /\ error' = error /\ isLoading' = FALSE)]_vars

\* Agents were loaded and none is selected.
C15_Witness == listReqs = <<>> /\ agents # <<>> /\ Idle /\ View = "WelcomeScreen" /\ ~isLoading /\ error = Null

----------------------------------------------------------------------------
\* The agent type registry taken alone, beside the sidebar's type filter and
\* the mount-time load.

\* A lookup that ignores the letter case of the id.
findIgnoringCase(types, id) == IF \E i \in DOMAIN types : types[i].id = ToLowerCase(id) THEN [defined |-> TRUE, entry |-> types[CHOOSE i \in DOMAIN types : types[i].id = ToLowerCase(id) /\ \A j \in 1..(i - 1) : types[j].id # ToLowerCase(id)]] ELSE [defined |-> FALSE]

\* agentTypes.find(t => t.id === id): the first entry with that id, or
\* undefined (defined = FALSE).
find(types, id) == IF \E i \in DOMAIN types : types[i].id = id THEN [defined |-> TRUE, entry |-> types[CHOOSE i \in DOMAIN types : types[i].id = id /\ \A j \in 1..(i - 1) : types[j].id # id]] ELSE [defined |-> FALSE]

\* Ids looked up: the registered ones, the service's spellings of two of
\* them, and ids that are no agent type.
LookupIds == AgentType \cup {"RAG", "Coding", "chat", "", Undefined}

\* One agentTypes.find(t => t.id === id), as the components' renders do it.
registryLookup(id) ==
  /\ typeLookup' = [phase |-> "done", id |-> id, result |-> find(registry, id)]
  /\ UNCHANGED <<homeVars, tmVars, pendingEffects, netVars, apiCall, registry, kazuriVars>>

NextRegistry == Effects \/ (\E t \in AgentType : ClickAgentType(t)) \/ ClickDismissError \/ ListAgentsAnswered \/ (\E id \in LookupIds : registryLookup(id))

SpecRegistry == Init /\ [][NextRegistry]_vars

\* The elements of a list.
Elements(list) == {list[i] : i \in DOMAIN list}

\* C16: the registry holds exactly the ids conversational, rag, tool_calling
\* and coding, each once; a lookup of one of them returns its entry, whose
\* metadata is fixed (rag: supportedFormats with .pdf, .docx and .csv; coding:
\* supportedLanguages with python and rust); a lookup of any other id
\* returns undefined; and no step changes the registry.
C16_RegistryFixed == /\ [](/\ Len(registry) = 4
                           /\ Elements([i \in DOMAIN registry |-> registry[i].id]) = {"conversational", "rag", "tool_calling", "coding"}
                           /\ typeLookup.phase = "done" =>
                                IF typeLookup.id \in {"conversational", "rag", "tool_calling", "coding"}
                                  THEN /\ typeLookup.result.defined
                                       /\ typeLookup.result.entry.id = typeLookup.id
                                       /\ typeLookup.id = "rag" => {".pdf", ".docx", ".csv"} \subseteq Elements(typeLookup.result.entry.supportedFormats)
                                       /\ typeLookup.id = "coding" => {"python", "rust"} \subseteq Elements(typeLookup.result.entry.supportedLanguages)
                                  ELSE ~typeLookup.result.defined)
                     /\ [][registry' = registry]_vars

\* The service's spelling of rag was looked up after the type filter moved.
C16_Witness == typeLookup.phase = "done" /\ typeLookup.id = "RAG" /\ ~typeLookup.result.defined /\ selectedType = "rag" /\ newAgent.type = "rag"

----------------------------------------------------------------------------
\* Switching agents while a send is in flight.

\* Another agent becomes the selected one.
AgentSwitch == selectedAgent' # selectedAgent

\* A query sent to an agent that is no longer the selected one is answered.
StaleAnswer == \E i \in DOMAIN queryReqs : queryReqs[i].agentId # selectedAgent.id /\ handleMessageSendDone(i, OkResponse(QueryPayload(queryReqs[i].text)))

\* C17: selecting another agent leaves the sends in flight as they are, and
\* the answer to a send made to an agent other than the selected one is
\* appended, as an assistant message, to the message list of the selected
\* agent.
C17_StaleAnswerAppended == [][/\ AgentSwitch => queryReqs' = queryReqs
                              /\ StaleAnswer => (Len(messages') = Len(messages) + 1 /\ SubSeq(messages', 1, Len(messages)) = messages /\ messages'[Len(messages')].role = "assistant" /\ selectedAgent' = selectedAgent)]_vars

\* The list the switch had emptied holds the other agent's answer alone.
C17_Witness == ChatShown /\ Len(agents) = 2 /\ Len(messages) = 1 /\ messages[1].role = "assistant" /\ ~hasDocument /\ queryReqs = <<>>

----------------------------------------------------------------------------
\* Sends in flight.

\* C18: two message sends can be in flight at the same time, the sends not
\* being serialized: while one is in flight and the chat is shown, another
\* can be started.
C18_SendsNotSerialized == (queryReqs # <<>> /\ ChatShown /\ Ready /\ ~isProcessingDocument) => ENABLED ClickSend

\* C18, as the code has it: the message input and the Send button are
\* disabled while isLoading, which a send keeps true until it is answered, so
\* at most one send is in flight, no other can be started meanwhile, and the
\* answers are appended in the order of the sends.
C18_SendsSerialized == Len(queryReqs) <= 1 /\ (queryReqs # <<>> => (isLoading /\ message = <<>> /\ ~ENABLED ClickSend /\ \A m \in MessageInputs : ~ENABLED TypeMessage(m)))

\* A later send of a conversation is in flight, the chat being shown.
C18_Witness == Len(queryReqs) = 1 /\ ChatShown /\ Ready /\ Len(messages) >= 3 /\ messages[Len(messages)].role = "user"

----------------------------------------------------------------------------
\* A request that is not answered.

\* A request of loadAgents, handleCreateAgent or handleMessageSend is in flight.
Hung == listReqs # <<>> \/ createReqs # <<>> \/ queryReqs # <<>>

\* The chat input, the Send button and the Create buttons do not respond.
LoadingControlsDisabled == /\ ~ENABLED ClickSend
                           /\ \A m \in MessageInputs : ~ENABLED TypeMessage(m)
                           /\ ~ENABLED ClickCreateNew
                           /\ ~ENABLED ClickCreateAgent

\* The user selects an agent, changes the type filter or dismisses the error.
UserStepWhileLoading == \/ \E i \in DOMAIN agents : ClickAgent(i)
                        \/ \E t \in AgentType : ClickAgentType(t)
                        \/ ClickDismissError

----------------------------------------------------------------------------
\* The operations that use isLoading.

\* How many of loadAgents, agent creation and message send are in flight.
LoadingOpsInFlight == Len(listReqs) + Len(createReqs) + Len(queryReqs)

\* C20: of the mount-time loadAgents, agent creation and message send at
\* most one is in flight in any reachable state, and isLoading is true
\* exactly when one is.
C20_LoadingOpsExclusive == LoadingOpsInFlight <= 1 /\ (isLoading <=> LoadingOpsInFlight = 1)

\* An agent creation is in flight after a message exchange has completed.
C20_Witness == createReqs # <<>> /\ isLoading /\ Len(messages) = 2 /\ selectedAgent # NullAgent /\ isCreating

----------------------------------------------------------------------------
\* The user message of a send.

\* handleMessageSend appends a user message.
UserMessageAppended == SendsQuery /\ Len(messages') = Len(messages) + 1

\* The message handleMessageSend has just appended.
AppendedMessage == messages'[Len(messages')]

\* C21: the user message built by handleMessageSend carries language and
\* error metadata only when the selected agent is a coding agent in
\* troubleshoot mode, and neither otherwise.
C21_MetadataOnlyWhenTroubleshooting == [][UserMessageAppended => IF selectedAgent.type = "coding" /\ codingMode = "troubleshoot" THEN (AppendedMessage.language # Undefined /\ AppendedMessage.error = "true") ELSE (AppendedMessage.language = Undefined /\ AppendedMessage.error # "true")]_vars

\* C21, as the code has it: the user message carries the selected language
\* whenever the selected agent is a coding agent, whatever the coding mode,
\* and no language for any other type; its error flag is true exactly for a
\* coding agent in troubleshoot mode and false otherwise.
C21_LanguageForCodingErrorForTroubleshoot == [][UserMessageAppended => (AppendedMessage.role = "user" /\ AppendedMessage.content = message /\ AppendedMessage.language = (IF selectedAgent.type = "coding" THEN selectedLanguage ELSE Undefined) /\ AppendedMessage.error = (IF selectedAgent.type = "coding" /\ codingMode = "troubleshoot" THEN "true" ELSE "false"))]_vars

\* A coding agent's message sent in generate mode carries its language.
C21_Witness == messages # <<>> /\ messages[1].role = "user" /\ messages[1].language = "rust" /\ messages[1].error = "false" /\ selectedAgent.type = "coding"

----------------------------------------------------------------------------
\* The type filter and the draft, beside a chat with a document: no agent is
\* created and no message is sent.

FilterEvent ==
  \/ \E t \in AgentType : CanAskTools /\ ClickAgentType(t)
  \/ \E i \in DOMAIN agents : ClickAgent(i)
  \/ \E f \in Files : ChooseFile(f)
  \/ CanAskTools /\ ClickCreateNew
  \/ TypeAgentName(<<"bot">>)
  \/ CanAskTools /\ SelectDraftType("tool_calling")
  \/ ClickCancel

FilterAnswered == ListAgentsAnswered \/ UploadAnswered \/ SummaryAnswered \/ ListToolsAnswered

NextFilter == Effects \/ FilterEvent \/ ToolPickEvent \/ FilterAnswered

SpecFilter == Init /\ [][NextFilter]_vars

\* The selectedType effect runs.
TypeEffectRuns == "selectedType" \in pendingEffects /\ "selectedType" \notin pendingEffects'

\* The sidebar moves the type filter to another type.
FilterSetTo(t) == selectedType # t /\ ClickAgentType(t)

\* C22: when the sidebar's type filter is set to a type T, the effect that
\* follows makes the draft's type T and its configuration empty; neither the
\* click nor the effect changes the draft's name, the selected agent, the
\* message list, hasDocument or selectedTools.
C22_FilterSetsDraftType == [][/\ \A t \in AgentType : FilterSetTo(t) => (selectedType' = t /\ "selectedType" \in pendingEffects' /\ UNCHANGED <<newAgent, selectedAgent, messages, hasDocument, selectedTools>>)
                              /\ (TypeEffectRuns /\ "selectedAgent" \notin pendingEffects) => (newAgent'.type = selectedType /\ newAgent'.configuration = {} /\ newAgent'.name = newAgent.name /\ UNCHANGED <<selectedType, selectedAgent, messages, hasDocument, selectedTools>>)]_vars

\* The filter was moved to rag while a named tool agent with a tool was being
\* drafted and a document chat was open: only the draft's type changed.
C22_Witness == selectedType = "rag" /\ newAgent.type = "rag" /\ newAgent.name = <<"bot">> /\ selectedTools # <<>> /\ hasDocument /\ messages # <<>> /\ selectedAgent # NullAgent /\ pendingEffects = {}

----------------------------------------------------------------------------
\* Cancelling the creation.

\* C23: Cancel sets isCreating to false, resets the draft to an empty name,
\* the sidebar's current type and an empty configuration, empties
\* selectedTools and sets showToolManager to false; agents, the selected
\* agent, the message list, hasDocument and currentDocument stay as they are.
C23_CancelDiscardsDraft == [][ClickCancel => (isCreating' = FALSE /\ newAgent' = [name |-> <<>>, type |-> selectedType, configuration |-> {}] /\ selectedTools' = <<>> /\ showToolManager' = FALSE /\ UNCHANGED <<agents, selectedAgent, selectedType, messages, hasDocument, currentDocument>>)]_vars

\* Cancel can be pressed on a named draft with a tool chosen and the tool
\* manager flag still set, over a chat that holds a document.
C23_Witness == ENABLED ClickCancel /\ newAgent.name # <<>> /\ selectedTools # <<>> /\ showToolManager /\ hasDocument /\ currentDocument # Null /\ messages # <<>> /\ agents # <<>>

----------------------------------------------------------------------------
\* Tool picking and tool creation in the creation form.

\* Tools created in one stay of ToolManager, and tools chosen, are bounded.
MaxSelectedTools == 2

\* ToolManager is opened only once the requests of an earlier stay are answered.
CanOpenTools == toolReqs = <<>>

CanCreateTool == Len(selectedTools) < MaxSelectedTools /\ Len(tmTools) <= Len(ServerTools)

ToolFormEvent ==
  \/ CanOpenTools /\ ClickCreateNew
  \/ TypeAgentName(<<"bot">>)
  \/ CanOpenTools /\ SelectDraftType("tool_calling")
  \/ CanOpenTools /\ ClickManageTools
  \/ \E i \in DOMAIN selectedTools : ClickRemoveTool(i)
  \/ ClickCancel

ToolManagerEvent ==
  \/ ClickBackToForm
  \/ \E i \in DOMAIN tmTools : ClickTool(i)
  \/ ClickToggleCreateTool
  \/ creationMode = "description" /\ description = "" /\ ClickCreationMode("code")
  \/ description = "" /\ TypeDescription("look things up")
  \/ toolName = "" /\ TypeToolName("add")
  \/ CanCreateTool /\ ClickCreateTool
  \/ successTimer

ToolsAnswered == ListAgentsAnswered \/ ListToolsAnswered \/ CreateToolAnswered

NextTools == Effects \/ ToolFormEvent \/ ToolManagerEvent \/ ToolsAnswered

SpecTools == Init /\ [][NextTools]_vars

----------------------------------------------------------------------------
\* The success message and its timer.

\* The names of the tools chosen.
ChosenNames(chosen) == {chosen[i].name : i \in DOMAIN chosen}

\* A tool of the list is selected.
ToolSelected(i) == i \in DOMAIN tmTools /\ ClickTool(i)

\* A createTool or createToolFromCode request of the mounted ToolManager succeeds.
ToolCreated(i) == i \in DOMAIN toolReqs /\ toolReqs[i].op # "listTools" /\ toolReqs[i].mounted /\ handleCreateToolDone(i, OkResponse(CreatedTool(toolReqs[i])))

\* ToolManager is unmounted.
ToolManagerUnmounts == ShowsToolManager /\ ~ShowsToolManager'

\* C24: selecting a tool, or creating one with success, sets the success
\* message and puts the tool into selectedTools; while ToolManager stays
\* mounted the tools chosen stay in selectedTools and the timer is armed once
\* the effect has run; when the timer fires it clears the message, sets
\* showToolManager to false and is spent, the form showing again with the
\* tools chosen; an unmount leaves no timer armed.
C24_TimerReturnsWithTool == [][/\ \A i \in DOMAIN tmTools : ToolSelected(i) => (successMessage' = "Tool selected successfully! Returning to agent creation..." /\ tmTools[i].name \in ChosenNames(selectedTools'))
                               /\ \A i \in DOMAIN toolReqs : ToolCreated(i) => (successMessage' = "Tool created successfully! Returning to agent creation..." /\ CreatedTool(toolReqs[i]).name \in ChosenNames(selectedTools'))
                               /\ (ShowsToolManager /\ ShowsToolManager' /\ pendingEffects = {}) => ChosenNames(selectedTools) \subseteq ChosenNames(selectedTools')
                               /\ (ShowsToolManager' /\ successMessage' # "" /\ pendingEffects' = {}) => tmTimer'
                               /\ successTimer => (successMessage' = "" /\ showToolManager' = FALSE /\ tmTimer' = FALSE /\ FormShown' /\ selectedTools' = selectedTools /\ selectedTools # <<>>)
                               /\ ToolManagerUnmounts => (tmTimer' = FALSE /\ successMessage' = "")]_vars

-----------------------------------------------------------------------------
\* The draft's tools outside the creation form.

\* C25: in every reachable state, isCreating = false implies
\* selectedTools = [] and showToolManager = false, whatever the order in
\* which ToolManager's pending createTool / createToolFromCode requests and
\* its timer complete relative to Cancel.
C25_NoToolsOutsideForm == ~isCreating => (selectedTools = <<>> /\ ~showToolManager)

-----------------------------------------------------------------------------
\* The chat of one agent: once an agent is selected the selection stays;
\* documents are attached and messages sent in any order.

AttachEvent ==
  \/ \E i \in DOMAIN agents : selectedAgent = NullAgent /\ ClickAgent(i)
  \/ \E f \in Files : ChooseFile(f)
  \/ \E m \in MessageInputs : TypeMessage(m)
  \/ CanSendLong /\ ClickSend

AttachAnswered == ListAgentsAnswered \/ QueryAnswered \/ UploadAnswered \/ SummaryAnswered

NextAttach == Effects \/ AttachEvent \/ AttachAnswered

SpecAttach == Init /\ [][NextAttach]_vars

\* Send i is answered with success.
Replied(i) == handleMessageSendDone(i, OkResponse(QueryPayload(queryReqs[i].text)))

\* C26: when the selected agent is not changed, the reply of a successful
\* handleMessageSend is appended directly after the user message it answers:
\* the list ends with that user message followed by its reply, also when an
\* upload started from the attach control during the send completes first.
C26_ReplyFollowsItsMessage == [][\A i \in DOMAIN queryReqs : Replied(i) => (/\ Len(messages') >= 2
                                                                           /\ messages'[Len(messages')].role = "assistant"
                                                                           /\ messages'[Len(messages') - 1].role = "user"
                                                                           /\ messages'[Len(messages') - 1].content = queryReqs[i].text)]_vars

-----------------------------------------------------------------------------
\* A summary query that fails.

\* The summary query of a pending upload is rejected.
SummaryRejects == \E i \in DOMAIN uploadReqs : handleFileUploadDone(i, ErrorResponse)

\* C27: when uploadDocument has succeeded and the summary queryAgent call
\* rejects, hasDocument, currentDocument and the message list are unchanged
\* (hasDocument stays false), the error is 'Failed to process document' and
\* isProcessingDocument returns to false, so a rag agent without a document
\* stays on the document upload view.
C27_FailedSummaryKeepsState == [][SummaryRejects => (/\ UNCHANGED <<hasDocument, currentDocument, messages, selectedAgent>>
                                                    /\ error' = "Failed to process document"
                                                    /\ isProcessingDocument' = FALSE
                                                    /\ (View = "DocumentUpload" => View' = "DocumentUpload"))]_vars

\* A rag agent's upload has failed: the error shows, nothing is processing
\* and the document upload view is still the one shown.
C27_Witness == error = "Failed to process document" /\ ~isProcessingDocument /\ uploadReqs = <<>> /\ ~hasDocument /\ currentDocument = Null /\ messages = <<>> /\ selectedAgent.type = "rag" /\ View = "DocumentUpload"

-----------------------------------------------------------------------------
\* The names in selectedTools.

\* C28: selectedTools never holds two entries with the same tool name, after
\* any sequence of tool selections, creations and removals in the creation
\* form.
C28_ToolNamesDistinct == \A i, j \in DOMAIN selectedTools : selectedTools[i].name = selectedTools[j].name => i = j

-----------------------------------------------------------------------------
\* The agents list and the selection.

\* The list after the step is the list before it, or that list with one
\* entry appended.
AgentsKeptOrAppended == agents' = agents \/ (Len(agents') = Len(agents) + 1 /\ SubSeq(agents', 1, Len(agents)) = agents)

\* C29: whenever an agent is selected it is an element of the agents list,
\* and once the mount-time load is over the agents list only grows by
\* appending created agents: no entry is removed, replaced or reordered.
C29_AgentsOnlyAppended == [][/\ selectedAgent' # NullAgent => selectedAgent' \in Elements(agents')
                             /\ listReqs = <<>> => AgentsKeptOrAppended]_vars

\* A created agent is selected, behind the agent the load brought.
C29_Witness == listReqs = <<>> /\ createReqs = <<>> /\ Len(agents) = 2 /\ agents[1].id < FirstCreatedId /\ selectedAgent = agents[2] /\ selectedAgent.id >= FirstCreatedId

-----------------------------------------------------------------------------
\* KazuriChat taken alone.

MaxChatSends == 3

ChatInputs == {<<>>, <<" ">>, <<" ", "sim", " ">>, <<"hi">>}

CanChat == Len(chatMessages) + Len(timers) + 2 <= Len(InitialChat) + 2 * MaxChatSends

NextKazuri ==
  \/ \E v \in ChatInputs : TypeChatInput(v)
  \/ (Trim(inputValue) # <<>> => CanChat) /\ SubmitChatInput
  \/ \E tab \in {"Describe", "Configure"} : ClickTab(tab)
  \/ TimePasses
  \/ \E i \in DOMAIN timers : replyTimeout(i)

SpecKazuri == Init /\ [][NextKazuri]_vars

\* The messages of one type that follow the two initial ones.
SentOfType(list, type) == SelectSeq(SubSeq(list, Len(InitialChat) + 1, Len(list)), LAMBDA m : m.type = type)

\* Every reply in the list quotes the send at its own rank, and each send
\* has its reply or its pending timeout.
RepliesMatchSends(list, pending) == LET sends == SentOfType(list, "user")
                                        replies == SentOfType(list, "assistant")
                                    IN /\ Len(replies) + Len(pending) = Len(sends)
                                       /\ \A k \in DOMAIN replies : replies[k] = aiMsg(sends[k])
                                       /\ \A k \in DOMAIN pending : pending[k].userMsg = sends[Len(replies) + k]

\* C30: in KazuriChat a submitted input that is not blank appends one user
\* message holding the trimmed text and, 800 ms later, exactly one assistant
\* reply quoting that text; replies come in the order of their sends even
\* with several sends pending; a blank input changes nothing; no message is
\* ever removed or reordered.
C30_RepliesFollowSends == [][/\ (SubmitChatInput /\ Trim(inputValue) # <<>>) => (/\ chatMessages' = Append(chatMessages, [type |-> "user", content |-> Trim(inputValue)])
                                                                                /\ Len(timers') = Len(timers) + 1
                                                                                /\ timers'[Len(timers')].remaining = 800)
                             /\ (SubmitChatInput /\ Trim(inputValue) = <<>>) => UNCHANGED kazuriVars
                             /\ \A i \in DOMAIN timers : replyTimeout(i) => (/\ i = 1
                                                                            /\ timers[i].remaining = 0
                                                                            /\ chatMessages' = Append(chatMessages, aiMsg(timers[i].userMsg)))
                             /\ TimePasses => \A i \in DOMAIN timers : timers'[i].remaining < timers[i].remaining
                             /\ Len(chatMessages') >= Len(chatMessages) /\ SubSeq(chatMessages', 1, Len(chatMessages)) = chatMessages
                             /\ RepliesMatchSends(chatMessages', timers')]_vars

\* Two sends were pending together and both have their reply, in the order
\* of the sends; the second text was typed with blanks around it.
C30_Witness == /\ timers = <<>>
               /\ Len(chatMessages) = Len(InitialChat) + 4
               /\ chatMessages[3] = [type |-> "user", content |-> <<"hi">>]
               /\ chatMessages[4] = [type |-> "user", content |-> <<"sim">>]
               /\ chatMessages[5] = aiMsg(chatMessages[3])
               /\ chatMessages[6] = aiMsg(chatMessages[4])

============================================================================
